---- MODULE Spec2Model ----
(***************************************************************************)
(* A model of the lecture-structuring pipeline: the silence-based audio    *)
(* segmenter (src/core/audio_segmenter.py), the marker-driven semantic     *)
(* analyzer (src/core/semantic_analyzer.py), the logic reconstructor with  *)
(* its language-model collaborator (src/core/logic_reconstructor.py,       *)
(* src/api/llm_client.py), the Document record (src/models/document.py)    *)
(* and the bounded-concurrency transcription batch                         *)
(* (src/core/transcriber.py, src/api/stt_client.py).                       *)
(*                                                                         *)
(* Times in milliseconds are integers.  Times in seconds are exact         *)
(* rationals [n, d] (n/d seconds).  Importance scores are integers in      *)
(* tenths (5 is 0.5).                                                      *)
(***************************************************************************)
EXTENDS Integers, Sequences, FiniteSets, TLC

VARIABLES
    \* ---- AudioSegmenter ----
    segPc,              \* position of the segmenter call
    min_duration_ms,    \* int(self.min_segment_duration * 1000)
    max_duration_ms,    \* int(self.max_segment_duration * 1000)
    nonsilent_ranges,   \* result of detect_pauses: <<start_ms, end_ms>> list
    merged_ranges,      \* result of merge_short_segments
    final_ranges,       \* result of split_long_segments
    seg_segments,       \* Segment list returned by segment_audio
    input_file,         \* suffix of the path handed to AudioSegmenter.process
    ffmpeg_calls,       \* number of runs of the extraction tool
    slices_written,     \* number of audio slices exported
    seg_error,          \* exception raised by AudioSegmenter.process, or "none"
    \* ---- SemanticAnalyzer.split_by_markers on one segment ----
    an_segment,         \* the segment handed to split_by_markers
    an_result,          \* [outcome, segments]: what the call produced
    \* ---- SemanticAnalyzer.__init__ ----
    class_markers,      \* the class attribute SEMANTIC_MARKERS and its lists
    analyzers,          \* the analyzers constructed so far: [custom, markers]
    \* ---- SemanticAnalyzer.process / mark_core_arguments ----
    pipePc,             \* position of the analysis pipeline
    segments,           \* the segment list owned by the current stage
    pipe_error,         \* exception that ended the pipeline, or "none"
    core_ids,           \* core-argument ids handed to mark_core_arguments
    pre_mark,           \* the segment list as it was before marking
    pipe_input,         \* the segment list as it was handed to the stage
    \* ---- Transcriber.transcribe_segments / STTClient.transcribe_batch ----
    tr_mode,            \* "segments" or "batch"
    tr_pc,              \* "running" or "returned"
    tr_input,           \* the input segments (or paths), in order
    max_concurrent,     \* the concurrency limit of the call
    semaphore,          \* value of the asyncio.Semaphore
    task,               \* per task: "waiting", "inflight", "done"
    stt_calls,          \* per task: number of transcribe calls started
    outcome,            \* per task: "none", "ok" or "fail" of its transcribe
    tr_order,           \* indices of the tasks in order of completion
    completed,          \* the nonlocal counter of transcribe_segments
    progress,           \* arguments of the progress_callback calls so far
    tr_result,          \* the list the call returned
    \* ---- LogicReconstructor.reconstruct and Document.to_dict ----
    rcPc,               \* position of the reconstruct call
    rc_input,           \* the segment list as it was handed to reconstruct
    rc_segments,        \* the segment list reconstruct works on
    rc_i,               \* position of the loop of extract_topics_for_segments
    extract_calls,      \* the extract_topics calls so far: [index, outcome]
    analyze_calls,      \* the analyze_paragraphs calls so far: [payload, outcome]
    analysis_result,    \* what analyze_logic_structure returned
    document,           \* the Document reconstruct returned
    doc_dict,           \* the record Document.to_dict produced
    rc_log,             \* the steps of reconstruct taken so far: [step, index]
    \* ---- ProcessingThread.run ----
    run_pc,             \* the stage the run is in, or "created" / "ended"
    run_file,           \* suffix of self.file_path
    run_segments,       \* the local variable segments of run
    run_document,       \* the Document carried by the finished signal
    run_stages,         \* the stages so far: [stage, event]
    run_emitted         \* the signals emitted so far: [signal, stage, current]

segVars == <<segPc, min_duration_ms, max_duration_ms, nonsilent_ranges,
             merged_ranges, final_ranges, seg_segments, input_file,
             ffmpeg_calls, slices_written, seg_error>>
anVars == <<an_segment, an_result, class_markers, analyzers>>
pipeVars == <<pipePc, segments, pipe_error, core_ids, pre_mark, pipe_input>>
trVars == <<tr_mode, tr_pc, tr_input, max_concurrent, semaphore, task,
            stt_calls, outcome, tr_order, completed, progress, tr_result>>
rcVars == <<rcPc, rc_input, rc_segments, rc_i, extract_calls,
            analyze_calls, analysis_result, document, doc_dict, rc_log>>
runVars == <<run_pc, run_file, run_segments, run_document, run_stages, run_emitted>>
vars == <<segVars, anVars, pipeVars, trVars, rcVars, runVars>>

----------------------------------------------------------------------------
(* Bounds *)

MaxRanges == 3        \* non-silent ranges per input list
MaxRangeLen == 3      \* length of one non-silent range, ms
MaxGap == 2           \* silence between two ranges, ms
MaxMinDur == 3        \* min_duration_ms drawn from 0..MaxMinDur
MaxMaxDur == 3        \* max_duration_ms drawn from 1..MaxMaxDur
MaxSplitStart == 2    \* start of the range handed to split_long_segments
MaxSplitDur == 30     \* duration of the range handed to split_long_segments
MaxSplitMax == 3      \* max_duration_ms in the split-only specification
MaxTextLen == 5       \* characters of the text handed to split_by_markers
MaxPipeSegs == 3      \* segments handed to SemanticAnalyzer.process
MaxCoreIds == 2       \* length of the core-argument id list
MaxBatch == 6         \* segments (paths) of one transcription batch
MaxConcurrent == 2    \* max_concurrent drawn from 1..MaxConcurrent and the default
MaxDocSegs == 3       \* segments handed to LogicReconstructor.reconstruct
MaxProcessRanges == 2 \* non-silent ranges of the file handed to AudioSegmenter.process
MaxAnalyzers == 4       \* analyzers constructed one after another
MaxFairBatch == 4       \* segments of a batch in the specification with fairness
MaxRunSegs == 2         \* segments the segmentation stage of a run returns

----------------------------------------------------------------------------
(* Generic helpers *)

Range(s) == {s[i] : i \in DOMAIN s}

RECURSIVE Flatten(_)
Flatten(ss) == IF ss = <<>> THEN <<>> ELSE Head(ss) \o Flatten(Tail(ss))

\* an exact rational number of seconds
Rat(n, d) == [n |-> n, d |-> d]
RatLeq(a, b) == a.n * b.d <= b.n * a.d
RatEq(a, b) == a.n * b.d = b.n * a.d

Dur(r) == r[2] - r[1]

----------------------------------------------------------------------------
(* AudioSegmenter.merge_short_segments *)

\* the loop "for start, end in segs[1:]" from index k on, followed by
\* the final append of the accumulated range
RECURSIVE MergeLoop(_, _, _, _, _)
\* variant: tests the length of the next range instead of the accumulated one
MergeLoop_NextShort(segs, k, cur, merged, min_ms) ==
    IF k > Len(segs)
    THEN Append(merged, cur)
    ELSE IF segs[k][2] - segs[k][1] < min_ms
         THEN MergeLoop(segs, k + 1, <<cur[1], segs[k][2]>>, merged, min_ms)
         ELSE MergeLoop(segs, k + 1, segs[k], Append(merged, cur), min_ms)

MergeLoop(segs, k, cur, merged, min_ms) ==
    IF k > Len(segs)
    THEN Append(merged, cur)
    ELSE IF cur[2] - cur[1] < min_ms
         THEN MergeLoop(segs, k + 1, <<cur[1], segs[k][2]>>, merged, min_ms)
         ELSE MergeLoop(segs, k + 1, segs[k], Append(merged, cur), min_ms)

\* variant: returns without appending the range still being accumulated
merge_short_segments_NoFinalAppend(segs, min_ms) ==
    IF segs = <<>>
    THEN <<>>
    ELSE LET merged == MergeLoop(segs, 2, segs[1], <<>>, min_ms)
         IN SubSeq(merged, 1, Len(merged) - 1)

merge_short_segments(segs, min_ms) ==
    IF segs = <<>>
    THEN <<>>
    ELSE MergeLoop(segs, 2, segs[1], <<>>, min_ms)

----------------------------------------------------------------------------
(* AudioSegmenter.split_long_segments *)

\* The code computes the cut points in IEEE-754 doubles:
\*     split_duration = duration / num_splits
\*     int(start + i * split_duration)
\* The exact value of start + i * duration / num_splits is truncated
\* correctly except where the double product lands just below an integer.
\* FloatDeficit lists every <<start, duration, num_splits, i>> with
\* start <= 40, duration <= 60 and max_duration_ms <= 8 at which the double
\* is below the exact (integer) value, so that int() yields one less.
FloatDeficit ==
    { <<s, 30, 11, 11>> : s \in 0..2 } \cup
    { <<s, 60, 13, 13>> : s \in 0..4 } \cup
    { <<s, 60, 11, 11>> : s \in 0..4 }

\* int(start + i * split_duration)
CutPoint(start, duration, num_splits, i) ==
    start + ((i * duration) \div num_splits)
      - (IF <<start, duration, num_splits, i>> \in FloatDeficit THEN 1 ELSE 0)

\* the body of the loop for one (start, end)
\* variant: int(duration / max_duration_ms) pieces, without the "+ 1"
SplitOne_Floor(r, max_ms) ==
    LET duration == r[2] - r[1] IN
    IF duration > max_ms
    THEN LET num_splits == duration \div max_ms IN
         [i \in 1..num_splits |->
            << CutPoint(r[1], duration, num_splits, i - 1),
               CutPoint(r[1], duration, num_splits, i) >>]
    ELSE << r >>

SplitOne(r, max_ms) ==
    LET duration == r[2] - r[1] IN
    IF duration > max_ms
    THEN LET num_splits == (duration \div max_ms) + 1 IN
         [i \in 1..num_splits |->
            << CutPoint(r[1], duration, num_splits, i - 1),
               CutPoint(r[1], duration, num_splits, i) >>]
    ELSE << r >>

split_long_segments(segs, max_ms) ==
    Flatten([k \in 1..Len(segs) |-> SplitOne(segs[k], max_ms)])

----------------------------------------------------------------------------
(* AudioSegmenter.segment_audio *)

\* Segment(id=..., start_time=start_ms / 1000.0, end_time=end_ms / 1000.0,
\*         audio_path=...) with the dataclass defaults for the other fields
NewSegment(id, start_time, end_time, audio_path) ==
    [ id |-> id, start_time |-> start_time, end_time |-> end_time,
      audio_path |-> audio_path, text |-> <<>>, markers |-> <<>>,
      topics |-> <<>>, importance_score |-> 5, relations |-> <<>>,
      confidence |-> 0, is_core_argument |-> FALSE ]

MakeSegments(ranges) ==
    [idx \in 1..Len(ranges) |->
        NewSegment(<<"seg", idx>>, Rat(ranges[idx][1], 1000),
                   Rat(ranges[idx][2], 1000), <<"seg", idx, "wav">>)]

----------------------------------------------------------------------------
(* Text: a sequence of characters *)

\* "wen" stands for any CJK character outside the markers, "punct" for a
\* punctuation mark, "space" for whitespace; the others are the characters
\* of the marker keywords
WordChars == {"dan", "ke", "shi", "yin", "ci", "zong", "zhi", "wen"}

\* \w of the re module
IsWordChar(c) == c \in WordChars

\* str.strip()
RECURSIVE LStrip(_)
LStrip(t) == IF t # <<>> /\ Head(t) = "space" THEN LStrip(Tail(t)) ELSE t

RECURSIVE RStrip(_)
RStrip(t) ==
    IF t # <<>> /\ t[Len(t)] = "space" THEN RStrip(SubSeq(t, 1, Len(t) - 1)) ELSE t

Strip(t) == RStrip(LStrip(t))

\* text[a:b] with 0-based offsets
Slice(t, a, b) == SubSeq(t, a + 1, b)

\* keyword in text
Contains(t, kw) ==
    \E p \in 0..(Len(t) - Len(kw)) : Slice(t, p, p + Len(kw)) = kw

----------------------------------------------------------------------------
(* SemanticAnalyzer: lexicon and detect_markers *)

\* SEMANTIC_MARKERS in dict order, with the first keywords of three of its
\* relation types
SEMANTIC_MARKERS ==
    << [type |-> "CONTRAST",  keywords |-> << <<"dan", "shi">>, <<"ke", "shi">> >>],
       [type |-> "CAUSALITY", keywords |-> << <<"yin", "ci">> >>],
       [type |-> "SUMMARY",   keywords |-> << <<"zong", "zhi">> >>] >>

\* the (keyword, relation_type) pairs of one lexicon entry found in the text
MarkersOfType(entry, text) ==
    LET pairs == [k \in 1..Len(entry.keywords) |-> <<entry.keywords[k], entry.type>>]
        Found(pr) == Contains(text, pr[1])
    IN SelectSeq(pairs, Found)

detect_markers(markers, text) ==
    Flatten([e \in 1..Len(markers) |-> MarkersOfType(markers[e], text)])

\* "if relation_type in self.markers"
HasType(markers, relation_type) ==
    \E e \in 1..Len(markers) : markers[e].type = relation_type

\* self.markers[relation_type]['keywords'].extend(config.get('keywords', []))
\* on the list object the entry refers to
ExtendKeywords(markers, relation_type, config) ==
    [e \in 1..Len(markers) |->
        IF markers[e].type = relation_type
        THEN [markers[e] EXCEPT !.keywords =
                @ \o (IF "keywords" \in DOMAIN config THEN config.keywords ELSE <<>>)]
        ELSE markers[e]]

\* the loop "for relation_type, config in custom_markers.items()" of
\* __init__ over the lists shared with the class attribute
RECURSIVE MergeCustom(_, _)
MergeCustom(markers, custom_markers) ==
    IF custom_markers = <<>> THEN markers
    ELSE LET item == Head(custom_markers)
             merged == IF HasType(markers, item.type)
                       THEN ExtendKeywords(markers, item.type, item.config)
                       ELSE markers
         IN MergeCustom(merged, Tail(custom_markers))

\* self.markers = self.SEMANTIC_MARKERS.copy(): a new outer dict whose values
\* are the class attribute's own entries, here named by their relation type
ShallowCopy(markers) == [e \in 1..Len(markers) |-> markers[e].type]

\* the entries a shallow copy refers to, as they are now
Deref(refs, markers) ==
    [e \in 1..Len(refs) |->
        markers[CHOOSE c \in 1..Len(markers) : markers[c].type = refs[e]]]

----------------------------------------------------------------------------
(* SemanticAnalyzer.split_by_markers *)

\* \b at offset q of the text: exactly one of the characters around q is \w
WordBoundary(text, q) ==
    LET before == q > 0 /\ IsWordChar(text[q])
        after == q < Len(text) /\ IsWordChar(text[q + 1])
    IN before # after

\* re.finditer(r'\b' + re.escape(marker) + r'\b', text): offsets of the matches
MatchOffsets(text, marker) ==
    { p \in 0..(Len(text) - Len(marker)) :
        /\ Slice(text, p, p + Len(marker)) = marker
        /\ WordBoundary(text, p)
        /\ WordBoundary(text, p + Len(marker)) }

\* a set of offsets as an ascending sequence
RECURSIVE Ascending(_)
Ascending(S) ==
    IF S = {} THEN <<>>
    ELSE LET m == CHOOSE x \in S : \A y \in S : x <= y
         IN <<m>> \o Ascending(S \ {m})

\* the (offset, marker, relation_type) triples in the order the two loops
\* append them
FindSplitPoints(text, found) ==
    Flatten([k \in 1..Len(found) |->
        LET offs == Ascending(MatchOffsets(text, found[k][1]))
        IN [j \in 1..Len(offs) |-> <<offs[j], found[k][1], found[k][2]>>]])

\* split_points.sort(key=lambda x: x[0]): a stable sort by offset
RECURSIVE InsertByPos(_, _)
InsertByPos(sorted, x) ==
    IF sorted = <<>> THEN <<x>>
    ELSE IF Head(sorted)[1] <= x[1]
         THEN <<Head(sorted)>> \o InsertByPos(Tail(sorted), x)
         ELSE <<x>> \o sorted

RECURSIVE SortByPos(_)
SortByPos(sp) ==
    IF sp = <<>> THEN <<>>
    ELSE InsertByPos(SortByPos(SubSeq(sp, 1, Len(sp) - 1)), sp[Len(sp)])

RatAdd(a, b) == Rat(a.n * b.d + b.n * a.d, a.d * b.d)
RatSub(a, b) == Rat(a.n * b.d - b.n * a.d, a.d * b.d)
RatMul(a, b) == Rat(a.n * b.n, a.d * b.d)

\* Segment.duration
Duration(seg) == RatSub(seg.end_time, seg.start_time)

\* segment.start_time + (offset / len(text)) * segment.duration
Interpolate(seg, offset) ==
    RatAdd(seg.start_time, RatMul(Rat(offset, Len(seg.text)), Duration(seg)))

\* Segment(id=f"{segment.id}_sub{i}", ..., markers=..., confidence=...)
SubSegment(seg, i, start_time, end_time, text, markers) ==
    [ id |-> <<seg.id, "sub", i>>, start_time |-> start_time,
      end_time |-> end_time, audio_path |-> seg.audio_path, text |-> text,
      markers |-> markers, topics |-> <<>>, importance_score |-> 5,
      relations |-> <<>>, confidence |-> seg.confidence,
      is_core_argument |-> FALSE ]

\* the loop "for i, (pos, marker, relation_type) in enumerate(split_points)"
\* from entry k on (i = k - 1); yields [subs, last_pos]
RECURSIVE SplitLoop(_, _, _, _, _)
SplitLoop(seg, sp, k, subs, last_pos) ==
    IF k > Len(sp) THEN [subs |-> subs, last_pos |-> last_pos]
    ELSE LET pos == sp[k][1]
             sub_text == Strip(Slice(seg.text, last_pos, pos))
             subs2 == IF sub_text # <<>>
                      THEN Append(subs, SubSegment(seg, k - 1,
                                     Interpolate(seg, last_pos),
                                     Interpolate(seg, pos), sub_text, <<>>))
                      ELSE subs
         IN SplitLoop(seg, sp, k + 1, subs2, pos)

Returned(segs) == [outcome |-> "returned", segments |-> segs]
Raised(exc) == [outcome |-> exc, segments |-> <<>>]

\* The last sub-segment.  Its markers are
\*     [marker for _, marker, _ in split_points if _ >= last_pos]
\* where both "_" of the target bind the same name, so the condition compares
\* the relation type of the triple with the integer last_pos: evaluating it
\* for the first triple raises TypeError.
LastSubSegment(seg, sp, subs, last_pos) ==
    LET last_text == Strip(Slice(seg.text, last_pos, Len(seg.text))) IN
    IF last_text # <<>>
    THEN IF sp # <<>>
         THEN Raised("TypeError")
         ELSE Returned(Append(subs, SubSegment(seg, Len(sp),
                        Interpolate(seg, last_pos), seg.end_time, last_text, <<>>)))
    ELSE Returned(IF subs # <<>> THEN subs ELSE <<seg>>)

\* variant: without the two early returns for "nothing found"
split_by_markers_NoEarlyReturn(markers, seg) ==
    LET found == detect_markers(markers, seg.text)
        split_points == SortByPos(FindSplitPoints(seg.text, found))
        loop == SplitLoop(seg, split_points, 1, <<>>, 0)
    IN LastSubSegment(seg, split_points, loop.subs, loop.last_pos)

split_by_markers(markers, seg) ==
    LET found == detect_markers(markers, seg.text) IN
    IF found = <<>> THEN Returned(<<seg>>)
    ELSE LET split_points == SortByPos(FindSplitPoints(seg.text, found)) IN
         IF split_points = <<>> THEN Returned(<<seg>>)
         ELSE LET loop == SplitLoop(seg, split_points, 1, <<>>, 0)
              IN LastSubSegment(seg, split_points, loop.subs, loop.last_pos)

----------------------------------------------------------------------------
(* SemanticAnalyzer.analyze_relations, calculate_importance, process *)

\* ParagraphRelation(source_id=prev_segment.id, target_id=segment.id, ...,
\*                   confidence=0.8, ...), confidence in tenths
\* variant: the relation points from the owning segment to the previous one
NewRelation_Reversed(source_id, target_id, pr) ==
    [ source_id |-> target_id, target_id |-> source_id, relation_type |-> pr[2],
      marker_words |-> <<pr[1]>>, confidence |-> 8, description |-> pr ]

NewRelation(source_id, target_id, pr) ==
    [ source_id |-> source_id, target_id |-> target_id, relation_type |-> pr[2],
      marker_words |-> <<pr[1]>>, confidence |-> 8, description |-> pr ]

\* the body of the loop of analyze_relations for segs[i]
\* variant: the detected markers are added to the ones the segment had
RelateOne_KeepsMarkers(markers, segs, i) ==
    LET found == detect_markers(markers, segs[i].text)
        words == [k \in 1..Len(found) |-> found[k][1]]
        rels == IF i > 1 /\ found # <<>>
                THEN [k \in 1..Len(found) |->
                        NewRelation(segs[i - 1].id, segs[i].id, found[k])]
                ELSE <<>>
    IN [segs[i] EXCEPT !.markers = @ \o words, !.relations = @ \o rels]

RelateOne(markers, segs, i) ==
    LET found == detect_markers(markers, segs[i].text)
        words == [k \in 1..Len(found) |-> found[k][1]]
        rels == IF i > 1 /\ found # <<>>
                THEN [k \in 1..Len(found) |->
                        NewRelation(segs[i - 1].id, segs[i].id, found[k])]
                ELSE <<>>
    IN [segs[i] EXCEPT !.markers = words, !.relations = @ \o rels]

analyze_relations(markers, segs) ==
    [i \in 1..Len(segs) |-> RelateOne(markers, segs, i)]

\* the inner loop over self.markers for one marker of the segment: the first
\* relation type whose keywords hold the marker decides, then "break"
MarkerBonus(markers, marker) ==
    LET holding == { e \in 1..Len(markers) :
                        \E k \in 1..Len(markers[e].keywords) :
                            markers[e].keywords[k] = marker }
    IN IF holding = {} THEN 0
       ELSE LET first == CHOOSE e \in holding : \A f \in holding : e <= f
            IN IF markers[first].type = "SUMMARY" THEN 3
               ELSE IF markers[first].type = "CAUSALITY" THEN 2
               ELSE 0

\* the outer loop "for marker in segment.markers": every marker adds its bonus
RECURSIVE BonusSum(_, _)
BonusSum(markers, words) ==
    IF words = <<>> THEN 0
    ELSE MarkerBonus(markers, Head(words)) + BonusSum(markers, Tail(words))

RECURSIVE CountRefs(_, _)
CountRefs(rels, id) ==
    IF rels = <<>> THEN 0
    ELSE (IF Head(rels).target_id = id \/ Head(rels).source_id = id THEN 1 ELSE 0)
         + CountRefs(Tail(rels), id)

\* sum(1 for s in all_segments for r in s.relations if ...)
ReferenceCount(all_segs, id) ==
    CountRefs(Flatten([k \in 1..Len(all_segs) |-> all_segs[k].relations]), id)

Min(a, b) == IF a <= b THEN a ELSE b
Max(a, b) == IF a >= b THEN a ELSE b

\* len(segment.text) > 100
LongTextLen == 100

\* the score before "return min(score, 1.0)", in tenths
RawImportance(markers, seg, all_segs) ==
    5 + BonusSum(markers, seg.markers)
      + Min(ReferenceCount(all_segs, seg.id) * 1, 3)
      + (IF Len(seg.text) > LongTextLen THEN 1 ELSE 0)

\* variant: returns the score without clamping it
calculate_importance_NoClamp(markers, seg, all_segs) ==
    RawImportance(markers, seg, all_segs)

calculate_importance(markers, seg, all_segs) ==
    Min(RawImportance(markers, seg, all_segs), 10)

\* refine_segments: split every segment, then analyze the relations; an
\* exception of split_by_markers ends the call
refine_segments(markers, segs) ==
    LET parts == [k \in 1..Len(segs) |-> split_by_markers(markers, segs[k])] IN
    IF \E k \in 1..Len(segs) : parts[k].outcome # "returned"
    THEN Raised("TypeError")
    ELSE Returned(analyze_relations(markers,
                    Flatten([k \in 1..Len(segs) |-> parts[k].segments])))

\* SemanticAnalyzer.process
process(markers, segs) ==
    LET refined == refine_segments(markers, segs) IN
    IF refined.outcome # "returned" THEN refined
    ELSE Returned([k \in 1..Len(refined.segments) |->
            [refined.segments[k] EXCEPT !.importance_score =
                calculate_importance(markers, refined.segments[k], refined.segments)]])

----------------------------------------------------------------------------
(* LogicReconstructor.mark_core_arguments *)

MarkOne(seg, ids) ==
    IF \E k \in 1..Len(ids) : ids[k] = seg.id
    THEN [seg EXCEPT !.is_core_argument = TRUE,
                     !.importance_score = Max(seg.importance_score, 9)]
    ELSE seg

mark_core_arguments(segs, ids) ==
    [k \in 1..Len(segs) |-> MarkOne(segs[k], ids)]

----------------------------------------------------------------------------
(* LogicReconstructor: the collaborator and analyze_logic_structure *)

\* the dict {}; "if topic_tree_data" tests for it
EmptyDict == [dict |-> "empty"]

\* dict.get(key, default)
Get(d, key, default) == IF key \in DOMAIN d THEN d[key] ELSE default

\* a call of the collaborator that raised
Failure == [exception |-> "Exception"]

\* the all-empty result: returned by analyze_logic_structure when the call
\* raised, and by QwenLLMClient.analyze_paragraphs when the response does not
\* parse
EmptyShape ==
    [ core_arguments |-> <<>>, supporting_points |-> <<>>, logic_chains |-> <<>>,
      paragraph_relations |-> <<>>, topic_tree |-> EmptyDict ]

\* segments_data of analyze_logic_structure; the formatted timestamp is a
\* function of start_time and end_time, carried here as the pair
SegmentsData(segs) ==
    [k \in 1..Len(segs) |->
        [ id |-> segs[k].id, text |-> segs[k].text,
          timestamp |-> <<segs[k].start_time, segs[k].end_time>>,
          markers |-> segs[k].markers, topics |-> segs[k].topics ]]

\* segments[a:b] of a slice that may reach past the end
Clip(q, a, b) == SubSeq(q, a + 1, Min(b, Len(q)))

Ids(q) == [k \in 1..Len(q) |-> q[k].id]

\* MockLLMClient.analyze_paragraphs
MockAnalysis(payload) ==
    [ core_arguments |-> IF payload # <<>> THEN <<payload[1].id>> ELSE <<>>,
      supporting_points |-> IF Len(payload) > 1 THEN Ids(Clip(payload, 1, 3)) ELSE <<>>,
      logic_chains |-> << [ chain_id |-> "chain_1", chain_type |-> "MAIN_ARGUMENT",
                            segments |-> Ids(Clip(payload, 0, 3)),
                            description |-> "mock" ] >>,
      paragraph_relations |-> <<>>,
      topic_tree |-> [ main_topic |-> "mock",
                       subtopics |-> <<"renshilun", "bentilun">> ] ]

\* a parsed response of QwenLLMClient.analyze_paragraphs: it names the last
\* segment twice and a segment that does not exist, describes two chains, one
\* of them without its optional fields, and gives no topic tree
ParsedAnalysis(payload) ==
    [ core_arguments |->
          (IF payload # <<>> THEN <<payload[Len(payload)].id, payload[Len(payload)].id>>
           ELSE <<>>) \o << <<"seg", 0>> >>,
      supporting_points |-> <<>>,
      logic_chains |-> << [ chain_id |-> "chain_1", chain_type |-> "EXAMPLE",
                            segments |-> Ids(payload), description |-> "parsed",
                            importance |-> 8 ],
                          [ segments |-> <<>> ] >>,
      paragraph_relations |-> <<>>,
      topic_tree |-> EmptyDict ]

\* what a call of analyze_paragraphs may do: raise, answer as the mock
\* client, answer with a response that parses, or with one that does not
AnalysisOutcomes == {"raised", "mock", "parsed", "unparsed"}

AnalysisReply(kind, payload) ==
    IF kind = "raised" THEN Failure
    ELSE IF kind = "mock" THEN MockAnalysis(payload)
    ELSE IF kind = "parsed" THEN ParsedAnalysis(payload)
    ELSE EmptyShape

\* analyze_logic_structure for a given outcome of the collaborator's call
\* variant: the substitute for a failed call names the first segment
analyze_logic_structure_NamesFirst(payload, reply) ==
    IF reply = Failure
    THEN [EmptyShape EXCEPT !.core_arguments = Ids(Clip(payload, 0, 1))]
    ELSE reply

analyze_logic_structure(payload, reply) ==
    IF reply = Failure THEN EmptyShape ELSE reply

----------------------------------------------------------------------------
(* LogicReconstructor: build_logic_chains, build_topic_tree, Document *)

\* LogicChain(chain_id=chain_data.get('chain_id', ''), ...), importance in
\* tenths
NewLogicChain(chain_data) ==
    [ chain_id |-> Get(chain_data, "chain_id", ""),
      chain_type |-> Get(chain_data, "chain_type", "UNKNOWN"),
      segments |-> Get(chain_data, "segments", <<>>),
      description |-> Get(chain_data, "description", ""),
      importance |-> Get(chain_data, "importance", 5) ]

build_logic_chains(result) ==
    LET data == Get(result, "logic_chains", <<>>)
    IN [k \in 1..Len(data) |-> NewLogicChain(data[k])]

\* topic_segments[topic].append(seg.id), with a new key appended at the end
\* of the dict
AddTopic(entries, topic, id) ==
    IF \E k \in 1..Len(entries) : entries[k].name = topic
    THEN [k \in 1..Len(entries) |->
            IF entries[k].name = topic
            THEN [entries[k] EXCEPT !.segments = Append(@, id)]
            ELSE entries[k]]
    ELSE Append(entries, [name |-> topic, segments |-> <<id>>])

\* the loop "for topic in seg.topics"
RECURSIVE AddTopics(_, _, _)
AddTopics(entries, topics, id) ==
    IF topics = <<>> THEN entries
    ELSE AddTopics(AddTopic(entries, Head(topics), id), Tail(topics), id)

\* the loop "for seg in segments"
RECURSIVE GroupByTopic(_, _)
GroupByTopic(entries, segs) ==
    IF segs = <<>> THEN entries
    ELSE GroupByTopic(AddTopics(entries, Head(segs).topics, Head(segs).id), Tail(segs))

\* the tree built from the segments' topics
FallbackTree(segs) ==
    [ main_topic |-> "document", subtopics |-> GroupByTopic(<<>>, segs) ]

\* variant: the tree of the analysis result is never used
build_topic_tree_AlwaysFallback(segs, topic_tree_data) ==
    FallbackTree(segs)

build_topic_tree(segs, topic_tree_data) ==
    IF topic_tree_data # EmptyDict THEN topic_tree_data ELSE FallbackTree(segs)

\* set(topic for seg in segments for topic in seg.topics)
AllTopics(segs) == UNION { Range(segs[k].topics) : k \in 1..Len(segs) }

\* Document(source_file="", segments=..., logic_chains=..., topic_tree=...,
\*          metadata={...}); created_at, the time of construction, is left out
NewDocument(segs, logic_chains, topic_tree, core_argument_ids) ==
    [ state |-> "document", source_file |-> "", segments |-> segs,
      logic_chains |-> logic_chains, topic_tree |-> topic_tree,
      metadata |-> [ core_arguments_count |-> Len(core_argument_ids),
                     logic_chains_count |-> Len(logic_chains),
                     total_topics |-> Cardinality(AllTopics(segs)) ] ]

\* steps 3 to 6 of reconstruct, for the result of analyze_logic_structure
assemble(segs, result) ==
    LET logic_chains == build_logic_chains(result)
        core_argument_ids == Get(result, "core_arguments", <<>>)
        marked == mark_core_arguments(segs, core_argument_ids)
        topic_tree == build_topic_tree(marked, Get(result, "topic_tree", EmptyDict))
    IN NewDocument(marked, logic_chains, topic_tree, core_argument_ids)

----------------------------------------------------------------------------
(* Document: total_duration, segment_count, to_dict *)

\* max(seg.end_time for seg in self.segments): the first largest value
MaxEndTime(segs) ==
    LET k == CHOOSE i \in 1..Len(segs) :
                /\ \A j \in 1..Len(segs) : RatLeq(segs[j].end_time, segs[i].end_time)
                /\ \A j \in 1..(i - 1) : ~RatLeq(segs[i].end_time, segs[j].end_time)
    IN segs[k].end_time

\* variant: the end of the first segment
total_duration_FirstEnd(doc) ==
    IF doc.segments = <<>> THEN Rat(0, 1) ELSE doc.segments[1].end_time

total_duration(doc) ==
    IF doc.segments = <<>> THEN Rat(0, 1) ELSE MaxEndTime(doc.segments)

segment_count(doc) == Len(doc.segments)

\* [seg for seg in self.segments if seg.is_core_argument]
get_core_arguments(doc) ==
    LET IsCore(seg) == seg.is_core_argument IN SelectSeq(doc.segments, IsCore)

\* ParagraphRelation.to_dict: relation_type.value for the relation type
RelationToDict(r) ==
    [ source_id |-> r.source_id, target_id |-> r.target_id,
      relation_type |-> <<"value", r.relation_type>>,
      marker_words |-> r.marker_words, confidence |-> r.confidence,
      description |-> r.description ]

\* Segment.to_dict
SegmentToDict(seg) ==
    [ id |-> seg.id, start_time |-> seg.start_time, end_time |-> seg.end_time,
      duration |-> Duration(seg), audio_path |-> seg.audio_path,
      text |-> seg.text, markers |-> seg.markers, topics |-> seg.topics,
      importance_score |-> seg.importance_score, confidence |-> seg.confidence,
      is_core_argument |-> seg.is_core_argument,
      relations |-> [k \in 1..Len(seg.relations) |-> RelationToDict(seg.relations[k])] ]

\* LogicChain.to_dict
ChainToDict(chain) ==
    [ chain_id |-> chain.chain_id, chain_type |-> chain.chain_type,
      segments |-> chain.segments, description |-> chain.description,
      importance |-> chain.importance ]

\* Document.to_dict, without created_at
to_dict(doc) ==
    [ state |-> "dict", source_file |-> doc.source_file,
      total_duration |-> total_duration(doc),
      segment_count |-> segment_count(doc),
      segments |-> [k \in 1..Len(doc.segments) |-> SegmentToDict(doc.segments[k])],
      logic_chains |-> [k \in 1..Len(doc.logic_chains) |-> ChainToDict(doc.logic_chains[k])],
      topic_tree |-> doc.topic_tree, metadata |-> doc.metadata ]

----------------------------------------------------------------------------
(* Transcriber.transcribe_segments and STTClient.transcribe_batch *)

\* max_concurrent: int = 5
DefaultMaxConcurrent == 5

\* what the speech-to-text collaborator returns for a path
STTResult(text, confidence) == [text |-> text, confidence |-> confidence]
Transcript(path) == STTResult(<<"transcript", path>>, 9)

\* what gather(return_exceptions=True) holds for a call that raised
RaisedException == [exception |-> "Exception"]

Tasks == 1..Len(tr_input)

\* Semaphore.acquire: the task proceeds when the value is positive and no
\* earlier task is still waiting (waiters are woken first-in first-out)
\* variant: the task proceeds without looking at the semaphore's value
CanAcquire_NoLimit(i) ==
    /\ task[i] = "waiting"
    /\ \A j \in Tasks : j < i => task[j] # "waiting"

CanAcquire(i) ==
    /\ task[i] = "waiting"
    /\ \A j \in Tasks : j < i => task[j] # "waiting"
    /\ semaphore > 0

InFlight == { i \in Tasks : task[i] = "inflight" }

\* Semaphore.release on leaving "async with semaphore"
\* variant: the permit is not given back
Released_Kept(value) == value

Released(value) == value + 1

\* Transcriber.transcribe_segment: the segment after the call returned or
\* raised
transcribe_segment(seg, res) ==
    IF res = "ok"
    THEN [seg EXCEPT !.text = Transcript(seg.audio_path).text,
                     !.confidence = Transcript(seg.audio_path).confidence]
    ELSE [seg EXCEPT !.text = <<>>, !.confidence = 0]

\* the value of task i's coroutine: the updated segment in
\* transcribe_with_progress, the STTResult or the exception in
\* transcribe_with_limit
TaskValue(i) ==
    IF tr_mode = "segments"
    THEN transcribe_segment(tr_input[i], outcome[i])
    ELSE IF outcome[i] = "ok" THEN Transcript(tr_input[i].audio_path)
         ELSE RaisedException

\* variant: the values in the order in which the tasks completed
gather_AsCompleted == [k \in 1..Len(tr_order) |-> TaskValue(tr_order[k])]

\* asyncio.gather(*tasks): the values in the order of the tasks
gather == [i \in Tasks |-> TaskValue(i)]

\* the loop over results of transcribe_batch
\* variant: hands the gathered values on as they are
processed_results_KeepException(results) == results

processed_results(results) ==
    [i \in 1..Len(results) |->
        IF results[i] = RaisedException THEN STTResult(<<>>, 0) ELSE results[i]]

----------------------------------------------------------------------------
(* Specifications *)

\* AudioSegmenter.process has not been called
NoProcessCall ==
    /\ input_file = ""
    /\ ffmpeg_calls = 0
    /\ slices_written = 0
    /\ seg_error = "none"

IdleSegmenter ==
    /\ segPc = "idle"
    /\ min_duration_ms = 0
    /\ max_duration_ms = 0
    /\ nonsilent_ranges = <<>>
    /\ merged_ranges = <<>>
    /\ final_ranges = <<>>
    /\ seg_segments = <<>>
    /\ NoProcessCall

Pending == [outcome |-> "pending", segments |-> <<>>]

\* no analyzer has been constructed: the class attribute is as defined
NoAnalyzers ==
    /\ class_markers = SEMANTIC_MARKERS
    /\ analyzers = <<>>

IdleAnalyzer ==
    /\ an_segment = NewSegment(<<"seg", 0>>, Rat(0, 1), Rat(0, 1), <<"seg", 0, "wav">>)
    /\ an_result = Pending
    /\ NoAnalyzers

IdlePipeline ==
    /\ pipePc = "idle"
    /\ segments = <<>>
    /\ pipe_error = "none"
    /\ core_ids = <<>>
    /\ pre_mark = <<>>
    /\ pipe_input = <<>>

IdleTranscriber ==
    /\ tr_mode = "idle"
    /\ tr_pc = "idle"
    /\ tr_input = <<>>
    /\ max_concurrent = 0
    /\ semaphore = 0
    /\ task = <<>>
    /\ stt_calls = <<>>
    /\ outcome = <<>>
    /\ tr_order = <<>>
    /\ completed = 0
    /\ progress = <<>>
    /\ tr_result = <<>>

NoDocument == [state |-> "none"]

IdleReconstructor ==
    /\ rcPc = "idle"
    /\ rc_input = <<>>
    /\ rc_segments = <<>>
    /\ rc_i = 0
    /\ extract_calls = <<>>
    /\ analyze_calls = <<>>
    /\ analysis_result = NoDocument
    /\ document = NoDocument
    /\ doc_dict = NoDocument
    /\ rc_log = <<>>

\* no ProcessingThread has been created
IdleRun ==
    /\ run_pc = "idle"
    /\ run_file = ""
    /\ run_segments = <<>>
    /\ run_document = NoDocument
    /\ run_stages = <<>>
    /\ run_emitted = <<>>

(* ---- the segmenter: segment_audio on a list of detected ranges ---- *)

\* ordered, non-overlapping range lists: each range is given by the silence
\* before it and its length
RECURSIVE RangesFrom(_, _)
RangesFrom(t, gl) ==
    IF gl = <<>> THEN <<>>
    ELSE LET s == t + Head(gl)[1]
             e == s + Head(gl)[2]
         IN << <<s, e>> >> \o RangesFrom(e, Tail(gl))

RangeLists ==
    { RangesFrom(-1, gl) :
        gl \in UNION { [1..n -> (1..MaxGap) \X (1..MaxRangeLen)] : n \in 0..MaxRanges } }

InitSegmenter ==
    /\ IdleAnalyzer /\ IdlePipeline /\ IdleTranscriber /\ IdleReconstructor /\ IdleRun
    /\ NoProcessCall
    /\ segPc = "detected"
    /\ min_duration_ms \in 0..MaxMinDur
    /\ max_duration_ms \in 1..MaxMaxDur
    /\ nonsilent_ranges \in RangeLists
    /\ merged_ranges = <<>>
    /\ final_ranges = <<>>
    /\ seg_segments = <<>>

\* segment_audio after detect_pauses: merge, split, build the Segments
segment_audio ==
    /\ segPc = "detected"
    /\ LET merged == merge_short_segments(nonsilent_ranges, min_duration_ms)
           final == split_long_segments(merged, max_duration_ms)
       IN /\ merged_ranges' = merged
          /\ final_ranges' = final
          /\ seg_segments' = MakeSegments(final)
          /\ slices_written' = Len(final)
    /\ segPc' = "segmented"
    /\ UNCHANGED <<min_duration_ms, max_duration_ms, nonsilent_ranges,
                   input_file, ffmpeg_calls, seg_error>>
    /\ UNCHANGED <<anVars, pipeVars, trVars, rcVars, runVars>>

SpecSegmenter == InitSegmenter /\ [][segment_audio]_vars


(* ---- split_long_segments on one range ---- *)

InitSplit ==
    /\ IdleAnalyzer /\ IdlePipeline /\ IdleTranscriber /\ IdleReconstructor /\ IdleRun
    /\ NoProcessCall
    /\ segPc = "split_ready"
    /\ min_duration_ms = 0
    /\ max_duration_ms \in 1..MaxSplitMax
    /\ nonsilent_ranges = <<>>
    /\ \E s \in 0..MaxSplitStart, d \in 1..MaxSplitDur :
          merged_ranges = << <<s, s + d>> >>
    /\ final_ranges = <<>>
    /\ seg_segments = <<>>

split_call ==
    /\ segPc = "split_ready"
    /\ final_ranges' = split_long_segments(merged_ranges, max_duration_ms)
    /\ segPc' = "split_done"
    /\ UNCHANGED <<min_duration_ms, max_duration_ms, nonsilent_ranges,
                   merged_ranges, seg_segments, input_file, ffmpeg_calls,
                   slices_written, seg_error>>
    /\ UNCHANGED <<anVars, pipeVars, trVars, rcVars, runVars>>

SpecSplit == InitSplit /\ [][split_call]_vars


(* ---- merge_short_segments on seven 500 ms ranges, minimum 1500 ms ---- *)

\* max_segment_duration: float = 30.0, in milliseconds
DefaultMaxDurationMs == 30000

\* the scenario: number of ranges, their length, the minimum duration and the
\* silences that may separate two of them
MergeScenario ==
    [ count |-> 7, range_ms |-> 500, min_ms |-> 1500, gaps_ms |-> {100, 500, 1500} ]

ScenarioInputs ==
    { RangesFrom(0, <<<<0, MergeScenario.range_ms>>>> \o
                    [k \in 1..(MergeScenario.count - 1) |-> <<g[k], MergeScenario.range_ms>>]) :
        g \in [1..(MergeScenario.count - 1) -> MergeScenario.gaps_ms] }

InitMerge7 ==
    /\ IdleAnalyzer /\ IdlePipeline /\ IdleTranscriber /\ IdleReconstructor /\ IdleRun
    /\ NoProcessCall
    /\ segPc = "merge_ready"
    /\ min_duration_ms = MergeScenario.min_ms
    /\ max_duration_ms = DefaultMaxDurationMs
    /\ nonsilent_ranges \in ScenarioInputs
    /\ merged_ranges = <<>>
    /\ final_ranges = <<>>
    /\ seg_segments = <<>>

merge_call ==
    /\ segPc = "merge_ready"
    /\ merged_ranges' = merge_short_segments(nonsilent_ranges, min_duration_ms)
    /\ segPc' = "merge_done"
    /\ UNCHANGED <<min_duration_ms, max_duration_ms, nonsilent_ranges,
                   final_ranges, seg_segments, input_file, ffmpeg_calls,
                   slices_written, seg_error>>
    /\ UNCHANGED <<anVars, pipeVars, trVars, rcVars, runVars>>

SpecMerge7 == InitMerge7 /\ [][merge_call]_vars

(* ---- AudioSegmenter.process on a file ---- *)

VideoSuffixes == {".mp4", ".avi", ".mov", ".mkv", ".flv"}
AudioSuffixes == {".wav", ".mp3", ".flac", ".m4a"}

\* the suffixes of the files handed to process
InputSuffixes == {".mp4", ".MKV", ".wav", ".M4A", ".txt", ".ogg", ""}

\* str.lower() on these suffixes
Lower(suffix) ==
    IF suffix = ".MKV" THEN ".mkv"
    ELSE IF suffix = ".M4A" THEN ".m4a"
    ELSE suffix

\* the if / elif / else over file_ext
\* variant: a suffix that is not a video suffix is taken for audio
FileKind_ElseAudio(file_ext) ==
    IF file_ext \in VideoSuffixes THEN "video" ELSE "audio"

FileKind(file_ext) ==
    IF file_ext \in VideoSuffixes THEN "video"
    ELSE IF file_ext \in AudioSuffixes THEN "audio"
    ELSE "unsupported"

\* how the run of the extraction tool may end: exit status 0, a non-zero
\* exit status (CalledProcessError, re-raised as RuntimeError), or the tool
\* cannot be started (FileNotFoundError of subprocess.run)
ExtractionOutcomes == {"ok", "nonzero", "notfound"}

ProcessRangeLists ==
    { RangesFrom(-1, gl) :
        gl \in UNION { [1..n -> (1..MaxGap) \X (1..MaxRangeLen)] :
                         n \in 0..MaxProcessRanges } }

InitProcess ==
    /\ IdleAnalyzer /\ IdlePipeline /\ IdleTranscriber /\ IdleReconstructor /\ IdleRun
    /\ segPc = "called"
    /\ min_duration_ms \in 0..MaxMinDur
    /\ max_duration_ms \in 1..MaxMaxDur
    /\ input_file \in InputSuffixes
    /\ nonsilent_ranges = <<>>
    /\ merged_ranges = <<>>
    /\ final_ranges = <<>>
    /\ seg_segments = <<>>
    /\ ffmpeg_calls = 0
    /\ slices_written = 0
    /\ seg_error = "none"

\* process looks at the suffix: a video goes to the extraction, an audio file
\* is used as it is, anything else raises ValueError
check_file_type ==
    /\ segPc = "called"
    /\ LET kind == FileKind(Lower(input_file)) IN
         /\ segPc' = IF kind = "video" THEN "extracting"
                     ELSE IF kind = "audio" THEN "audio_ready"
                     ELSE "failed"
         /\ seg_error' = IF kind = "unsupported" THEN "ValueError" ELSE "none"
    /\ UNCHANGED <<min_duration_ms, max_duration_ms, nonsilent_ranges, merged_ranges,
                   final_ranges, seg_segments, input_file, ffmpeg_calls,
                   slices_written>>
    /\ UNCHANGED <<anVars, pipeVars, trVars, rcVars, runVars>>

\* extract_audio_from_video: one run of the tool
extract_audio_from_video ==
    /\ segPc = "extracting"
    /\ ffmpeg_calls' = ffmpeg_calls + 1
    /\ \E res \in ExtractionOutcomes :
          /\ segPc' = IF res = "ok" THEN "audio_ready" ELSE "failed"
          /\ seg_error' = IF res = "ok" THEN "none"
                          ELSE IF res = "nonzero" THEN "RuntimeError"
                          ELSE "FileNotFoundError"
    /\ UNCHANGED <<min_duration_ms, max_duration_ms, nonsilent_ranges, merged_ranges,
                   final_ranges, seg_segments, input_file, slices_written>>
    /\ UNCHANGED <<anVars, pipeVars, trVars, rcVars, runVars>>

\* segment_audio on the audio file: the file cannot be loaded, or its ranges
\* are detected, merged, split and exported
segment_audio_file ==
    /\ segPc = "audio_ready"
    /\ \/ /\ segPc' = "failed"
          /\ seg_error' = "CouldntDecodeError"
          /\ UNCHANGED <<nonsilent_ranges, merged_ranges, final_ranges, seg_segments,
                         slices_written>>
       \/ \E ranges \in ProcessRangeLists :
            LET merged == merge_short_segments(ranges, min_duration_ms)
                final == split_long_segments(merged, max_duration_ms)
            IN /\ nonsilent_ranges' = ranges
               /\ merged_ranges' = merged
               /\ final_ranges' = final
               /\ seg_segments' = MakeSegments(final)
               /\ slices_written' = Len(final)
               /\ segPc' = "segmented"
               /\ seg_error' = "none"
    /\ UNCHANGED <<min_duration_ms, max_duration_ms, input_file, ffmpeg_calls>>
    /\ UNCHANGED <<anVars, pipeVars, trVars, rcVars, runVars>>

NextProcess ==
    \/ check_file_type
    \/ extract_audio_from_video
    \/ segment_audio_file

SpecProcess == InitProcess /\ [][NextProcess]_vars

(* ---- split_by_markers on one segment ---- *)

SplitAlphabet == {"dan", "ke", "shi", "wen", "punct", "space"}

TextsUpTo(n) == UNION { [1..k -> SplitAlphabet] : k \in 0..n }

\* (start_time, end_time) of the parent, in seconds
ParentTimes == { <<Rat(0, 1), Rat(0, 1)>>, <<Rat(2, 1), Rat(12, 1)>> }

InitMarkers ==
    /\ IdleSegmenter /\ IdlePipeline /\ IdleTranscriber /\ IdleReconstructor /\ IdleRun
    /\ \E t \in TextsUpTo(MaxTextLen), se \in ParentTimes :
          an_segment = [ NewSegment(<<"seg", 1>>, se[1], se[2], <<"seg", 1, "wav">>)
                           EXCEPT !.text = t, !.confidence = 9 ]
    /\ an_result = Pending
    /\ NoAnalyzers

split_by_markers_call ==
    /\ an_result = Pending
    /\ an_result' = split_by_markers(SEMANTIC_MARKERS, an_segment)
    /\ UNCHANGED <<an_segment, class_markers, analyzers>>
    /\ UNCHANGED <<segVars, pipeVars, trVars, rcVars, runVars>>

SpecMarkers == InitMarkers /\ [][split_by_markers_call]_vars

(* ---- SemanticAnalyzer.__init__: analyzers constructed one after another ---- *)

\* what a construction may pass as custom_markers: nothing, a keyword for a
\* relation type of the lexicon, a keyword for a type the lexicon lacks, or
\* both of these kinds at once
CustomKinds == {"none", "contrast", "parallel", "mixed"}

CustomMarkers(kind) ==
    IF kind = "contrast"
    THEN << [type |-> "CONTRAST", config |-> [keywords |-> << <<"qi", "shi">> >>]] >>
    ELSE IF kind = "parallel"
    THEN << [type |-> "PARALLEL", config |-> [keywords |-> << <<"tong", "shi">> >>]] >>
    ELSE IF kind = "mixed"
    THEN << [type |-> "PARALLEL", config |-> [keywords |-> << <<"tong", "shi">> >>]],
            [type |-> "SUMMARY", config |-> [keywords |-> << <<"gai", "kuo">> >>]] >>
    ELSE <<>>

InitLexicon ==
    /\ IdleSegmenter /\ IdlePipeline /\ IdleTranscriber /\ IdleReconstructor /\ IdleRun
    /\ an_segment = NewSegment(<<"seg", 0>>, Rat(0, 1), Rat(0, 1), <<"seg", 0, "wav">>)
    /\ an_result = Pending
    /\ NoAnalyzers

\* SemanticAnalyzer(custom_markers): the copy of the class attribute, then
\* the merge of the custom keywords into the lists the copy refers to
new_SemanticAnalyzer ==
    /\ Len(analyzers) < MaxAnalyzers
    /\ \E kind \in CustomKinds :
          /\ class_markers' = MergeCustom(class_markers, CustomMarkers(kind))
          /\ analyzers' = Append(analyzers,
                [custom |-> kind, markers |-> ShallowCopy(class_markers)])
    /\ UNCHANGED <<an_segment, an_result>>
    /\ UNCHANGED <<segVars, pipeVars, trVars, rcVars, runVars>>

SpecLexicon == InitLexicon /\ [][new_SemanticAnalyzer]_vars

(* ---- SemanticAnalyzer.process, then mark_core_arguments ---- *)

\* transcripts: plain text, empty text, a marker inside running text (found
\* as a substring, no word boundary), two markers, a marker delimited by
\* punctuation
PipeTexts ==
    { <<"wen", "wen">>,
      <<>>,
      <<"wen", "zong", "zhi", "wen">>,
      <<"wen", "yin", "ci", "wen">>,
      <<"zong", "zhi", "yin", "ci">>,
      <<"wen", "dan", "shi", "wen">>,
      <<"yin", "ci", "punct", "wen">> }

\* transcribed segments seg_1 .. seg_n, ten seconds each
TranscribedLists ==
    { [k \in 1..Len(txt) |->
         [ NewSegment(<<"seg", k>>, Rat(10 * (k - 1), 1), Rat(10 * k, 1),
                      <<"seg", k, "wav">>)
             EXCEPT !.text = txt[k], !.confidence = 9 ]] :
        txt \in UNION { [1..n -> PipeTexts] : n \in 0..MaxPipeSegs } }

InitPipeline ==
    /\ IdleSegmenter /\ IdleAnalyzer /\ IdleTranscriber /\ IdleReconstructor /\ IdleRun
    /\ pipePc = "transcribed"
    /\ segments \in TranscribedLists
    /\ pipe_error = "none"
    /\ core_ids = <<>>
    /\ pre_mark = <<>>
    /\ pipe_input = segments

\* SemanticAnalyzer.process on the transcribed segments
semantic_process ==
    /\ pipePc = "transcribed"
    /\ LET r == process(SEMANTIC_MARKERS, segments) IN
         IF r.outcome = "returned"
         THEN /\ segments' = r.segments
              /\ pipePc' = "analyzed"
              /\ pipe_error' = "none"
         ELSE /\ segments' = segments
              /\ pipePc' = "failed"
              /\ pipe_error' = r.outcome
    /\ UNCHANGED <<core_ids, pre_mark, pipe_input>>
    /\ UNCHANGED <<segVars, anVars, trVars, rcVars, runVars>>

\* ids the analysis result may name: the segments' ids and an unknown one
CoreIdLists ==
    LET ids == { segments[k].id : k \in 1..Len(segments) } \cup { <<"seg", 0>> }
    IN UNION { [1..n -> ids] : n \in 0..MaxCoreIds }

\* LogicReconstructor.mark_core_arguments on the analyzed segments
mark_core_arguments_call ==
    /\ pipePc = "analyzed"
    /\ \E ids \in CoreIdLists :
          /\ core_ids' = ids
          /\ segments' = mark_core_arguments(segments, ids)
    /\ pre_mark' = segments
    /\ pipePc' = "marked"
    /\ UNCHANGED <<pipe_error, pipe_input>>
    /\ UNCHANGED <<segVars, anVars, trVars, rcVars, runVars>>

SpecPipeline ==
    InitPipeline /\ [][semantic_process \/ mark_core_arguments_call]_vars

(* ---- SemanticAnalyzer.analyze_relations on a segment list ---- *)

\* a segment as an earlier analyze_relations left it: with a marker and a
\* relation to a segment before it
Analyzed(seg) ==
    [seg EXCEPT !.markers = << <<"dan", "shi">> >>,
                !.relations = << NewRelation(<<"seg", 0>>, seg.id,
                                             << <<"dan", "shi">>, "CONTRAST" >>) >>]

\* lists of transcribed segments, each one new or analyzed before
RelationInputs ==
    { [k \in 1..Len(base) |-> IF again[k] THEN Analyzed(base[k]) ELSE base[k]] :
        base \in TranscribedLists, again \in [1..MaxPipeSegs -> BOOLEAN] }

InitRelations ==
    /\ IdleSegmenter /\ IdleAnalyzer /\ IdleTranscriber /\ IdleReconstructor /\ IdleRun
    /\ pipePc = "refined"
    /\ segments \in RelationInputs
    /\ pipe_error = "none"
    /\ core_ids = <<>>
    /\ pre_mark = <<>>
    /\ pipe_input = segments

analyze_relations_call ==
    /\ pipePc = "refined"
    /\ segments' = analyze_relations(SEMANTIC_MARKERS, segments)
    /\ pipePc' = "related"
    /\ UNCHANGED <<pipe_error, core_ids, pre_mark, pipe_input>>
    /\ UNCHANGED <<segVars, anVars, trVars, rcVars, runVars>>

SpecRelations == InitRelations /\ [][analyze_relations_call]_vars

(* ---- a transcription batch ---- *)

InitTranscribe ==
    /\ IdleSegmenter /\ IdleAnalyzer /\ IdlePipeline /\ IdleReconstructor /\ IdleRun
    /\ tr_mode \in {"segments", "batch"}
    /\ tr_pc = "running"
    /\ \E n \in 0..MaxBatch :
          /\ tr_input = [k \in 1..n |->
                NewSegment(<<"seg", k>>, Rat(k - 1, 1), Rat(k, 1), <<"seg", k, "wav">>)]
          /\ task = [k \in 1..n |-> "waiting"]
          /\ stt_calls = [k \in 1..n |-> 0]
          /\ outcome = [k \in 1..n |-> "none"]
    /\ max_concurrent \in (1..MaxConcurrent) \cup {DefaultMaxConcurrent}
    /\ semaphore = max_concurrent
    /\ tr_order = <<>>
    /\ completed = 0
    /\ progress = <<>>
    /\ tr_result = <<>>

\* "async with semaphore" entered: the task starts its transcribe call
Acquire(i) ==
    /\ tr_pc = "running"
    /\ CanAcquire(i)
    /\ semaphore' = semaphore - 1
    /\ task' = [task EXCEPT ![i] = "inflight"]
    /\ stt_calls' = [stt_calls EXCEPT ![i] = @ + 1]
    /\ UNCHANGED <<tr_mode, tr_pc, tr_input, max_concurrent, outcome, tr_order,
                   completed, progress, tr_result>>
    /\ UNCHANGED <<segVars, anVars, pipeVars, rcVars, runVars>>

\* the transcribe call of task i returns (res = "ok") or raises
\* (res = "fail"); the task counts itself, reports progress and leaves the
\* "async with" block
Finish(i, res) ==
    /\ tr_pc = "running"
    /\ task[i] = "inflight"
    /\ task' = [task EXCEPT ![i] = "done"]
    /\ outcome' = [outcome EXCEPT ![i] = res]
    /\ tr_order' = Append(tr_order, i)
    /\ semaphore' = Released(semaphore)
    /\ IF tr_mode = "segments"
       THEN /\ completed' = completed + 1
            /\ progress' = Append(progress, <<completed + 1, Len(tr_input)>>)
       ELSE UNCHANGED <<completed, progress>>
    /\ UNCHANGED <<tr_mode, tr_pc, tr_input, max_concurrent, stt_calls, tr_result>>
    /\ UNCHANGED <<segVars, anVars, pipeVars, rcVars, runVars>>

\* every task is done: gather yields and the call returns its list
Return ==
    /\ tr_pc = "running"
    /\ \A i \in Tasks : task[i] = "done"
    /\ tr_result' = IF tr_mode = "segments" THEN gather ELSE processed_results(gather)
    /\ tr_pc' = "returned"
    /\ UNCHANGED <<tr_mode, tr_input, max_concurrent, semaphore, task, stt_calls,
                   outcome, tr_order, completed, progress>>
    /\ UNCHANGED <<segVars, anVars, pipeVars, rcVars, runVars>>

NextTranscribe ==
    \/ \E i \in Tasks : Acquire(i)
    \/ \E i \in Tasks, res \in {"ok", "fail"} : Finish(i, res)
    \/ Return

SpecTranscribe == InitTranscribe /\ [][NextTranscribe]_vars

(* ---- transcribe_segments under the scheduling of the event loop ---- *)

InitTranscribeFair ==
    /\ IdleSegmenter /\ IdleAnalyzer /\ IdlePipeline /\ IdleReconstructor /\ IdleRun
    /\ tr_mode = "segments"
    /\ tr_pc = "running"
    /\ \E n \in 0..MaxFairBatch :
          /\ tr_input = [k \in 1..n |->
                NewSegment(<<"seg", k>>, Rat(k - 1, 1), Rat(k, 1), <<"seg", k, "wav">>)]
          /\ task = [k \in 1..n |-> "waiting"]
          /\ stt_calls = [k \in 1..n |-> 0]
          /\ outcome = [k \in 1..n |-> "none"]
    /\ max_concurrent \in (1..MaxConcurrent) \cup {DefaultMaxConcurrent}
    /\ semaphore = max_concurrent
    /\ tr_order = <<>>
    /\ completed = 0
    /\ progress = <<>>
    /\ tr_result = <<>>

\* The event loop runs every task that is ready: a task that can take the
\* semaphore takes it, and gather returns once all tasks are done.  That a
\* transcribe call in flight eventually returns or raises is the assumption
\* made about the collaborator.
Fairness ==
    /\ \A i \in 1..MaxFairBatch : WF_vars(i \in Tasks /\ Acquire(i))
    /\ \A i \in 1..MaxFairBatch :
          WF_vars(i \in Tasks /\ \E res \in {"ok", "fail"} : Finish(i, res))
    /\ WF_vars(Return)

SpecTranscribeFair == InitTranscribeFair /\ [][NextTranscribe]_vars /\ Fairness

(* ---- LogicReconstructor.reconstruct, then Document.to_dict ---- *)

\* the segments handed to reconstruct: transcribed ("fresh"), without
\* transcript ("silent"), or left by an earlier reconstruct over the same
\* objects, with topics and core flag ("redone") or with topics and a
\* transcript that has since become empty ("stale")
SegmentKinds == {"fresh", "silent", "redone", "stale"}

DocSegment(k, kind) ==
    [ NewSegment(<<"seg", k>>, Rat(10 * (k - 1), 1), Rat(10 * k, 1), <<"seg", k, "wav">>)
        EXCEPT !.text = IF kind \in {"fresh", "redone"} THEN <<"wen", "wen">> ELSE <<>>,
               !.topics = IF kind \in {"redone", "stale"} THEN <<"old">> ELSE <<>>,
               !.is_core_argument = (kind = "redone"),
               !.confidence = IF kind \in {"fresh", "redone"} THEN 9 ELSE 0 ]

DocInputs ==
    { [k \in 1..Len(kinds) |-> DocSegment(k, kinds[k])] :
        kinds \in UNION { [1..n -> SegmentKinds] : n \in 0..MaxDocSegs } }

\* what a call of extract_topics may do: raise, or return a list of topics
\* (one of the lists names a topic twice)
TopicOutcomes == {"raised", "two", "one", "twice"}

TopicReply(kind) ==
    IF kind = "two" THEN <<"t1", "t2">>
    ELSE IF kind = "one" THEN <<"t2">>
    ELSE IF kind = "twice" THEN <<"t2", "t2">>
    ELSE <<>>

\* "if segment.text"
\* variant: the collaborator is asked for every segment
NeedsTopics_Always(seg) == TRUE

NeedsTopics(seg) == seg.text # <<>>

\* one step of reconstruct; index is the segment's position for a call of
\* extract_topics and 0 otherwise
Step(name, index) == [step |-> name, index |-> index]

\* the steps of reconstruct after the topics, in the order of its statements
ReconstructSteps ==
    << Step("analyze_paragraphs", 0), Step("build_logic_chains", 0),
       Step("mark_core_arguments", 0), Step("build_topic_tree", 0),
       Step("Document", 0) >>

\* the loop of extract_topics_for_segments has gone through the list
\* variant: the loop may be left at any segment
LoopOver_AnyTime == rc_i >= 1

LoopOver == rc_i > Len(rc_segments)

InitReconstruct ==
    /\ IdleSegmenter /\ IdleAnalyzer /\ IdlePipeline /\ IdleTranscriber /\ IdleRun
    /\ rcPc = "topics"
    /\ rc_input \in DocInputs
    /\ rc_segments = rc_input
    /\ rc_i = 1
    /\ extract_calls = <<>>
    /\ analyze_calls = <<>>
    /\ analysis_result = NoDocument
    /\ document = NoDocument
    /\ doc_dict = NoDocument
    /\ rc_log = <<>>

\* one iteration of the loop of extract_topics_for_segments: the call of
\* extract_topics for a segment with text returns or raises
extract_topics_iteration ==
    /\ rcPc = "topics"
    /\ rc_i <= Len(rc_segments)
    /\ IF NeedsTopics(rc_segments[rc_i])
       THEN \E kind \in TopicOutcomes :
              /\ extract_calls' = Append(extract_calls, [index |-> rc_i, outcome |-> kind])
              /\ rc_segments' = [rc_segments EXCEPT ![rc_i].topics = TopicReply(kind)]
              /\ rc_log' = Append(rc_log, Step("extract_topics", rc_i))
       ELSE UNCHANGED <<rc_segments, extract_calls, rc_log>>
    /\ rc_i' = rc_i + 1
    /\ UNCHANGED <<rcPc, rc_input, analyze_calls, analysis_result, document, doc_dict>>
    /\ UNCHANGED <<segVars, anVars, pipeVars, trVars, runVars>>

\* the loop is over: analyze_logic_structure calls analyze_paragraphs, and
\* with its result reconstruct builds the chains, marks the core arguments,
\* builds the topic tree and returns the Document
analyze_and_assemble ==
    /\ rcPc = "topics"
    /\ LoopOver
    /\ \E kind \in AnalysisOutcomes :
          LET payload == SegmentsData(rc_segments)
              result == analyze_logic_structure(payload, AnalysisReply(kind, payload))
              doc == assemble(rc_segments, result)
          IN /\ analyze_calls' = Append(analyze_calls, [payload |-> payload, outcome |-> kind])
             /\ analysis_result' = result
             /\ document' = doc
             /\ rc_segments' = doc.segments
    /\ rc_log' = rc_log \o ReconstructSteps
    /\ rcPc' = "returned"
    /\ UNCHANGED <<rc_input, rc_i, extract_calls, doc_dict>>
    /\ UNCHANGED <<segVars, anVars, pipeVars, trVars, runVars>>

\* Document.to_dict on the returned Document
to_dict_call ==
    /\ rcPc = "returned"
    /\ doc_dict' = to_dict(document)
    /\ rcPc' = "exported"
    /\ UNCHANGED <<rc_input, rc_segments, rc_i, extract_calls, analyze_calls,
                   analysis_result, document, rc_log>>
    /\ UNCHANGED <<segVars, anVars, pipeVars, trVars, runVars>>

NextReconstruct ==
    \/ extract_topics_iteration
    \/ analyze_and_assemble
    \/ to_dict_call

SpecReconstruct == InitReconstruct /\ [][NextReconstruct]_vars

(* ---- ProcessingThread.run: the four stages of a pipeline run ---- *)

StageNames == <<"segmentation", "transcription", "analysis", "structuring">>

\* self.status.emit(...), self.progress.emit(k, 4), self.finished.emit(...),
\* self.error.emit(...): stage is the number of the stage the signal speaks
\* of and current the counter of the progress callback (0 when none)
Signal(name, stage, current) == [signal |-> name, stage |-> stage, current |-> current]

StageEvent(stage, event) == [stage |-> StageNames[stage], event |-> event]

\* "except Exception as e: self.error.emit(...)"
\* variant: the handler reports the error and then completion as well
HandleException_ThenFinished(emitted, stage) ==
    emitted \o << Signal("error", stage, 0), Signal("finished", stage, 0) >>

HandleException(emitted, stage) == Append(emitted, Signal("error", stage, 0))

\* how segmenter.process may end for the file: ValueError for an unsupported
\* suffix; otherwise a failed extraction (video only), a file that cannot be
\* decoded, or the list of segments
SegmentationOutcomes(file) ==
    LET kind == FileKind(Lower(file)) IN
    IF kind = "unsupported" THEN {"ValueError"}
    ELSE (IF kind = "video" THEN {"RuntimeError", "FileNotFoundError"} ELSE {})
            \cup {"CouldntDecodeError", "returned"}

\* the segments of a file with n stretches of speech, 1.5 s each
RunSegments(n) ==
    MakeSegments([k \in 1..n |-> <<2000 * (k - 1), 2000 * (k - 1) + 1500>>])

\* what a segment's transcription may give: no transcript (the call failed),
\* a text without marker, or a text with a marker delimited by punctuation
TranscriptKinds == {"fail", "plain", "marker"}

Transcribed(seg, kind) ==
    IF kind = "fail" THEN [seg EXCEPT !.text = <<>>, !.confidence = 0]
    ELSE IF kind = "plain" THEN [seg EXCEPT !.text = <<"wen", "wen">>, !.confidence = 9]
    ELSE [seg EXCEPT !.text = <<"yin", "ci", "punct", "wen">>, !.confidence = 9]

\* MockLLMClient.extract_topics
MockTopics == <<"zhexue", "renshilun", "xianxiangxue">>

\* the calls progress_callback(1, total) .. progress_callback(total, total)
CallbackSignals(total) == [k \in 1..total |-> Signal("status", 2, k)]

InitRun ==
    /\ IdleSegmenter /\ IdleAnalyzer /\ IdlePipeline /\ IdleTranscriber
    /\ IdleReconstructor
    /\ run_pc = "created"
    /\ run_file \in InputSuffixes
    /\ run_segments = <<>>
    /\ run_document = NoDocument
    /\ run_stages = <<>>
    /\ run_emitted = <<>>

\* run is entered: the status of stage 1 is emitted and segmenter.process is
\* called
run_enter ==
    /\ run_pc = "created"
    /\ run_emitted' = Append(run_emitted, Signal("status", 1, 0))
    /\ run_stages' = Append(run_stages, StageEvent(1, "started"))
    /\ run_pc' = "segmentation"
    /\ UNCHANGED <<run_file, run_segments, run_document>>
    /\ UNCHANGED <<segVars, anVars, pipeVars, trVars, rcVars>>

\* segmenter.process raises, or returns the segments and the transcription
\* is started
segmentation_ends ==
    /\ run_pc = "segmentation"
    /\ \E res \in SegmentationOutcomes(run_file) :
          IF res = "returned"
          THEN \E n \in 0..MaxRunSegs :
                 /\ run_segments' = RunSegments(n)
                 /\ run_emitted' = run_emitted \o
                        << Signal("progress", 1, 0), Signal("status", 2, 0) >>
                 /\ run_stages' = run_stages \o
                        << StageEvent(1, "completed"), StageEvent(2, "started") >>
                 /\ run_pc' = "transcription"
          ELSE /\ run_emitted' = HandleException(run_emitted, 1)
               /\ run_stages' = Append(run_stages, StageEvent(1, "failed"))
               /\ run_pc' = "ended"
               /\ UNCHANGED run_segments
    /\ UNCHANGED <<run_file, run_document>>
    /\ UNCHANGED <<segVars, anVars, pipeVars, trVars, rcVars>>

\* asyncio.run(transcriber.transcribe_segments(...)) returns: every segment
\* has its transcript or none, the callback has reported each of them, and
\* the analysis is started
transcription_ends ==
    /\ run_pc = "transcription"
    /\ \E kinds \in [1..Len(run_segments) -> TranscriptKinds] :
          run_segments' = [k \in 1..Len(run_segments) |->
                              Transcribed(run_segments[k], kinds[k])]
    /\ run_emitted' = run_emitted \o CallbackSignals(Len(run_segments)) \o
                        << Signal("progress", 2, 0), Signal("status", 3, 0) >>
    /\ run_stages' = run_stages \o
                        << StageEvent(2, "completed"), StageEvent(3, "started") >>
    /\ run_pc' = "analysis"
    /\ UNCHANGED <<run_file, run_document>>
    /\ UNCHANGED <<segVars, anVars, pipeVars, trVars, rcVars>>

\* analyzer.process raises, or returns the refined segments and the
\* structuring is started
analysis_ends ==
    /\ run_pc = "analysis"
    /\ LET r == process(SEMANTIC_MARKERS, run_segments) IN
         IF r.outcome = "returned"
         THEN /\ run_segments' = r.segments
              /\ run_emitted' = run_emitted \o
                     << Signal("progress", 3, 0), Signal("status", 4, 0) >>
              /\ run_stages' = run_stages \o
                     << StageEvent(3, "completed"), StageEvent(4, "started") >>
              /\ run_pc' = "structuring"
         ELSE /\ run_emitted' = HandleException(run_emitted, 3)
              /\ run_stages' = Append(run_stages, StageEvent(3, "failed"))
              /\ run_pc' = "ended"
              /\ UNCHANGED run_segments
    /\ UNCHANGED <<run_file, run_document>>
    /\ UNCHANGED <<segVars, anVars, pipeVars, trVars, rcVars>>

\* reconstructor.process returns the Document; its source_file is set and
\* the finished signal carries it
structuring_ends ==
    /\ run_pc = "structuring"
    /\ \E kind \in AnalysisOutcomes :
          LET with_topics == [k \in 1..Len(run_segments) |->
                                IF NeedsTopics(run_segments[k])
                                THEN [run_segments[k] EXCEPT !.topics = MockTopics]
                                ELSE run_segments[k]]
              payload == SegmentsData(with_topics)
              result == analyze_logic_structure(payload, AnalysisReply(kind, payload))
              doc == [assemble(with_topics, result) EXCEPT !.source_file = run_file]
          IN /\ run_document' = doc
             /\ run_segments' = doc.segments
    /\ run_emitted' = run_emitted \o
                        << Signal("progress", 4, 0), Signal("finished", 4, 0) >>
    /\ run_stages' = Append(run_stages, StageEvent(4, "completed"))
    /\ run_pc' = "ended"
    /\ UNCHANGED run_file
    /\ UNCHANGED <<segVars, anVars, pipeVars, trVars, rcVars>>

NextRun ==
    \/ run_enter
    \/ segmentation_ends
    \/ transcription_ends
    \/ analysis_ends
    \/ structuring_ends

SpecRun == InitRun /\ [][NextRun]_vars

----------------------------------------------------------------------------
(* Claims about the segmenter *)

\* C1: every range emitted by merge_short_segments, except possibly the last
\* one, has a duration of at least the minimum duration.
C1_MergedAtLeastMin ==
    segPc = "segmented" =>
        \A k \in 1..(Len(merged_ranges) - 1) :
            Dur(merged_ranges[k]) >= min_duration_ms

\* ranges were merged, an earlier range was emitted, and the last one is short
C1_Witness ==
    /\ segPc = "segmented"
    /\ Len(merged_ranges) >= 2
    /\ Len(merged_ranges) < Len(nonsilent_ranges)
    /\ Dur(merged_ranges[Len(merged_ranges)]) < min_duration_ms

\* the sub-ranges of one range tile it and none is longer than the maximum
Tiles(r, parts, max_ms) ==
    /\ Len(parts) >= 1
    /\ parts[1][1] = r[1]
    /\ parts[Len(parts)][2] = r[2]
    /\ \A k \in 1..(Len(parts) - 1) : parts[k][2] = parts[k + 1][1]
    /\ \A k \in 1..Len(parts) : Dur(parts[k]) <= max_ms

\* C2: the sub-ranges split_long_segments outputs for a range tile it exactly
\* (first starts at start, last ends at end, no gaps, no overlaps) and each
\* has a duration of at most max_segment_duration.
C2_SplitTilesRange ==
    segPc = "split_done" =>
        Tiles(merged_ranges[1], final_ranges, max_duration_ms)

C4_SevenMergeIntoOne ==
    segPc = "merge_done" =>
        merged_ranges =
            << << nonsilent_ranges[1][1],
                  nonsilent_ranges[Len(nonsilent_ranges)][2] >> >>

\* C4 as amended: the seven ranges merge into three or four ranges, each but
\* the last at least 1500 ms long, the first starting at the first input
\* range's start and the last ending at the last input range's end.
C4_SevenMergeIntoThreeOrFour ==
    segPc = "merge_done" =>
        /\ Len(merged_ranges) \in {3, 4}
        /\ merged_ranges[1][1] = nonsilent_ranges[1][1]
        /\ merged_ranges[Len(merged_ranges)][2] =
               nonsilent_ranges[Len(nonsilent_ranges)][2]
        /\ \A k \in 1..(Len(merged_ranges) - 1) :
               Dur(merged_ranges[k]) >= MergeScenario.min_ms

\* short silences: the ranges merge three at a time
C4_Witness ==
    /\ segPc = "merge_done"
    /\ Len(nonsilent_ranges) = MergeScenario.count
    /\ Len(merged_ranges) = 3


\* C15: AudioSegmenter.process fails as a whole for an unrecognized file
\* extension and for a failed external extraction: the error reaches the
\* caller, no segment list is returned, no segmentation step has run and no
\* audio slice has been written, and the extraction tool is run at most once
\* per call.
C15_ProcessFailsWhole ==
    segPc \in {"extracting", "audio_ready", "failed", "segmented"} =>
        /\ ffmpeg_calls <= 1
        /\ (Lower(input_file) \notin (VideoSuffixes \cup AudioSuffixes)) =>
              /\ segPc = "failed"
              /\ seg_error = "ValueError"
              /\ ffmpeg_calls = 0
        /\ seg_error \in {"ValueError", "RuntimeError", "FileNotFoundError"} =>
              /\ segPc = "failed"
              /\ nonsilent_ranges = <<>>
              /\ merged_ranges = <<>>
              /\ final_ranges = <<>>
              /\ seg_segments = <<>>
              /\ slices_written = 0
        /\ segPc = "segmented" => seg_error = "none"
        /\ segPc = "failed" => seg_error # "none" /\ seg_segments = <<>>

\* the extraction of a video failed after one run of the tool
C15_Witness ==
    /\ segPc = "failed"
    /\ input_file = ".MKV"
    /\ seg_error = "RuntimeError"
    /\ ffmpeg_calls = 1
    /\ slices_written = 0

----------------------------------------------------------------------------
(* Claims about the semantic analyzer *)

\* all keywords of the lexicon with their relation type
LexiconPairs ==
    UNION { { <<SEMANTIC_MARKERS[e].keywords[k], SEMANTIC_MARKERS[e].type>> :
                k \in 1..Len(SEMANTIC_MARKERS[e].keywords) } :
            e \in 1..Len(SEMANTIC_MARKERS) }

\* the text holds no lexicon marker as a substring
NoMarkerIn(text) == \A pr \in LexiconPairs : ~Contains(text, pr[1])

\* keyword kw at offset p is the only occurrence of a lexicon marker
OnlyMarkerAt(text, kw, p) ==
    /\ p + Len(kw) <= Len(text)
    /\ Slice(text, p, p + Len(kw)) = kw
    /\ \A pr \in LexiconPairs : \A q \in 0..(Len(text) - Len(pr[1])) :
          Slice(text, q, q + Len(pr[1])) = pr[1] => (pr[1] = kw /\ q = p)

\* C5: for a text with one lexicon marker that follows punctuation and is
\* directly followed by further text, detect_markers returns the pair
\* (marker, relation type) and split_by_markers returns exactly two
\* non-empty sub-segments: the text before the marker and the text from the
\* marker onward.
C5_MarkerAfterPunctSplitsInTwo ==
    \A pr \in LexiconPairs : \A p \in 1..Len(an_segment.text) :
        LET text == an_segment.text
            kw == pr[1]
        IN ( /\ an_result # Pending
             /\ OnlyMarkerAt(text, kw, p)
             /\ text[p] = "punct"
             /\ text[1] = "wen"
             /\ Strip(Slice(text, 0, p)) # <<>>
             /\ p + Len(kw) < Len(text)
             /\ text[p + Len(kw) + 1] = "wen" )
           => /\ \E k \in 1..Len(detect_markers(SEMANTIC_MARKERS, text)) :
                    detect_markers(SEMANTIC_MARKERS, text)[k] = pr
              /\ an_result.outcome = "returned"
              /\ Len(an_result.segments) = 2
              /\ an_result.segments[1].text = Strip(Slice(text, 0, p))
              /\ an_result.segments[2].text = Strip(Slice(text, p, Len(text)))

\* C6: for a segment whose text holds no lexicon marker (an empty text
\* included), split_by_markers returns the one-element list with that same
\* segment, unchanged.
C6_NoMarkerKeepsSegment ==
    (an_result # Pending /\ NoMarkerIn(an_segment.text)) =>
        an_result = Returned(<<an_segment>>)

\* a text without marker that holds characters of markers
C6_Witness ==
    /\ an_result.outcome = "returned"
    /\ NoMarkerIn(an_segment.text)
    /\ Len(an_segment.text) >= 3
    /\ \E k \in 1..Len(an_segment.text) : an_segment.text[k] = "shi"
    /\ an_result.segments = <<an_segment>>

\* C7: for a parent with end_time >= start_time, split_by_markers returns
\* sub-segments that lie, in output order, inside the parent's interval:
\* parent.start_time <= sub.start_time <= sub.end_time <= parent.end_time,
\* each starting no earlier than the previous one ends.
C7_SubSegmentTimesOrdered ==
    (an_result # Pending /\ RatLeq(an_segment.start_time, an_segment.end_time)) =>
        /\ an_result.outcome = "returned"
        /\ \A k \in 1..Len(an_result.segments) :
              LET sub == an_result.segments[k] IN
              /\ RatLeq(an_segment.start_time, sub.start_time)
              /\ RatLeq(sub.start_time, sub.end_time)
              /\ RatLeq(sub.end_time, an_segment.end_time)
              /\ k > 1 => RatLeq(an_result.segments[k - 1].end_time, sub.start_time)

\* C19: when split_by_markers finds at least one word-boundary occurrence of
\* a marker, the text from the last occurrence to the end of the parent text
\* becomes the final sub-segment: its end_time is the parent's end_time and
\* its markers are the markers of the occurrences at or after its start
\* offset.
C19_LastSubSegmentCarriesMarkers ==
    LET text == an_segment.text
        sp == SortByPos(FindSplitPoints(text, detect_markers(SEMANTIC_MARKERS, text)))
    IN (an_result # Pending /\ sp # <<>>) =>
          /\ an_result.outcome = "returned"
          /\ an_result.segments # <<>>
          /\ LET last == an_result.segments[Len(an_result.segments)]
                 last_pos == sp[Len(sp)][1]
                 AtOrAfter(x) == x[1] >= last_pos
                 late == SelectSeq(sp, AtOrAfter)
             IN /\ last.text = Strip(Slice(text, last_pos, Len(text)))
                /\ last.end_time = an_segment.end_time
                /\ last.markers = [j \in 1..Len(late) |-> late[j][2]]

\* the id of the input segment a returned segment stems from
ParentId(id) == IF Len(id) = 3 THEN id[1] ELSE id

\* the returned segments stem from the input segments, each input segment
\* giving at least one, in the input's order
InOriginalOrder(result, input) ==
    \E f \in [1..Len(result) -> 1..Len(input)] :
        /\ \A j \in 1..Len(result) : ParentId(result[j].id) = input[f[j]].id
        /\ \A j \in 1..(Len(result) - 1) : f[j] <= f[j + 1]
        /\ \A k \in 1..Len(input) : \E j \in 1..Len(result) : f[j] = k

\* C18: for every list of transcribed segments, whatever text a segment
\* carries (empty, without marker, with a marker delimited by punctuation or
\* the ends of the string), SemanticAnalyzer.process completes without raising
\* and returns at least one segment per input segment, in original order.
C18_ProcessNeverRaises ==
    pipePc \in {"analyzed", "failed"} =>
        /\ pipePc = "analyzed"
        /\ pipe_error = "none"
        /\ Len(segments) >= Len(pipe_input)
        /\ InOriginalOrder(segments, pipe_input)

\* the bonus of the segment: 0.3 with a SUMMARY marker, else 0.2 with a
\* CAUSALITY marker, else 0, in tenths
HasMarkerOfType(seg, type) ==
    \E j \in 1..Len(seg.markers) : <<seg.markers[j], type>> \in LexiconPairs

SingleBonus(seg) ==
    IF HasMarkerOfType(seg, "SUMMARY") THEN 3
    ELSE IF HasMarkerOfType(seg, "CAUSALITY") THEN 2
    ELSE 0

\* C20: calculate_importance returns min(1, 0.5 + bonus + min(0.3, 0.1 * r) + L)
\* with exactly one bonus (0.3 for a SUMMARY marker, otherwise 0.2 for a
\* CAUSALITY marker, otherwise 0, never stacked), r the number of relations in
\* the list that name the segment as source or target, and L = 0.1 for a text
\* of more than 100 characters.
C20_ImportanceFormula ==
    pipePc = "analyzed" =>
        \A k \in 1..Len(segments) :
            segments[k].importance_score =
                Min(10, 5 + SingleBonus(segments[k])
                          + Min(3, ReferenceCount(segments, segments[k].id))
                          + (IF Len(segments[k].text) > LongTextLen THEN 1 ELSE 0))

\* C16: for every list of segments none of whose texts contains a lexicon
\* marker, analyze_relations creates no relation: every segment's relations
\* list is unchanged and every segment's markers list is empty afterwards.
C16_NoMarkersNoRelations ==
    ( /\ pipePc = "related"
      /\ \A k \in 1..Len(pipe_input) : NoMarkerIn(pipe_input[k].text) ) =>
        /\ Len(segments) = Len(pipe_input)
        /\ \A k \in 1..Len(segments) :
              /\ segments[k].relations = pipe_input[k].relations
              /\ segments[k].markers = <<>>
              /\ segments[k] = [pipe_input[k] EXCEPT !.markers = <<>>]

\* three segments without markers, one of them analyzed before: it keeps its
\* relation and loses its marker
C16_Witness ==
    /\ pipePc = "related"
    /\ Len(pipe_input) = 3
    /\ \A k \in 1..Len(pipe_input) : NoMarkerIn(pipe_input[k].text)
    /\ \E k \in 1..Len(pipe_input) : pipe_input[k].text # <<>>
    /\ \E k \in 2..Len(pipe_input) :
          /\ pipe_input[k].markers # <<>>
          /\ segments[k].markers = <<>>
          /\ Len(segments[k].relations) = 1
    /\ \E k \in 1..Len(pipe_input) : segments[k].relations = <<>>

----------------------------------------------------------------------------
(* Claims about scoring and core-argument marking *)

InCoreIds(id) == \E k \in 1..Len(core_ids) : core_ids[k] = id

\* C8: after SemanticAnalyzer.process and after mark_core_arguments every
\* importance_score lies in [0, 1]; mark_core_arguments sets, for each
\* segment whose id is in the list, is_core_argument and raises the score to
\* max(previous score, 0.9), and leaves every other segment unchanged.
C8_ScoresInUnitRange ==
    /\ pipePc \in {"analyzed", "marked"} =>
          \A k \in 1..Len(segments) :
              segments[k].importance_score >= 0 /\ segments[k].importance_score <= 10
    /\ pipePc = "marked" =>
          /\ Len(segments) = Len(pre_mark)
          /\ \A k \in 1..Len(segments) :
                IF InCoreIds(pre_mark[k].id)
                THEN /\ segments[k].is_core_argument
                     /\ segments[k].importance_score >= 9
                     /\ segments[k].importance_score >= pre_mark[k].importance_score
                     /\ segments[k].importance_score \in {9, pre_mark[k].importance_score}
                     /\ segments[k] =
                          [pre_mark[k] EXCEPT !.is_core_argument = TRUE,
                                              !.importance_score = segments[k].importance_score]
                ELSE segments[k] = pre_mark[k]

\* a segment whose score was clamped to 1 is marked and keeps its score,
\* another one is raised to 0.9, a third one is not in the list
C8_Witness ==
    /\ pipePc = "marked"
    /\ \E k \in 1..Len(segments) :
          /\ InCoreIds(pre_mark[k].id)
          /\ RawImportance(SEMANTIC_MARKERS, pre_mark[k], pre_mark) > 10
          /\ segments[k].importance_score = 10
    /\ \E k \in 1..Len(segments) :
          /\ InCoreIds(pre_mark[k].id)
          /\ pre_mark[k].importance_score < 9
          /\ segments[k].importance_score = 9
    /\ \E k \in 1..Len(segments) : ~InCoreIds(pre_mark[k].id)

----------------------------------------------------------------------------
(* Claims about the transcription batch *)

\* C9: at every moment of transcribe_segments and of transcribe_batch the
\* number of transcribe calls started and not yet finished is at most
\* max_concurrent.
C9_InFlightAtMostLimit ==
    tr_pc # "idle" => Cardinality(InFlight) <= max_concurrent

\* the default limit is reached while a further task waits
C9_Witness ==
    /\ tr_pc = "running"
    /\ max_concurrent = DefaultMaxConcurrent
    /\ Cardinality(InFlight) = max_concurrent
    /\ \E i \in Tasks : task[i] = "waiting"

\* C10: whatever the order of completion, the returned list has the length
\* of the input and its i-th element belongs to the i-th input: the i-th
\* segment (same id), or the result of the call for the i-th path.
C10_ResultsInInputOrder ==
    tr_pc = "returned" =>
        /\ Len(tr_result) = Len(tr_input)
        /\ \A i \in 1..Len(tr_input) :
              IF tr_mode = "segments"
              THEN tr_result[i].id = tr_input[i].id
              ELSE tr_result[i] =
                     (IF outcome[i] = "ok" THEN Transcript(tr_input[i].audio_path)
                      ELSE STTResult(<<>>, 0))

\* the calls completed in another order than the input's
C10_Witness ==
    /\ tr_pc = "returned"
    /\ Len(tr_input) >= 3
    /\ tr_order[1] > tr_order[2]
    /\ \A i \in 1..Len(tr_input) : tr_mode = "segments" /\ tr_result[i].id = tr_input[i].id

\* C11: when the speech-to-text call for a segment fails, that segment ends
\* with text "" and confidence 0.0, the batch still returns its full list, and
\* every other segment carries the text and confidence its own successful
\* call returned.
C11_FailureIsolated ==
    tr_pc = "returned" =>
        /\ Len(tr_result) = Len(tr_input)
        /\ \A i \in 1..Len(tr_input) :
              LET got == IF outcome[i] = "fail" THEN STTResult(<<>>, 0)
                         ELSE Transcript(tr_input[i].audio_path)
              IN IF tr_mode = "segments"
                 THEN tr_result[i] = [tr_input[i] EXCEPT !.text = got.text,
                                                         !.confidence = got.confidence]
                 ELSE tr_result[i] = got

\* one call of the batch failed, the others succeeded, and the call returned
C11_Witness ==
    /\ tr_pc = "returned"
    /\ Len(tr_input) >= 3
    /\ Cardinality({ i \in Tasks : outcome[i] = "fail" }) = 1
    /\ \A i \in Tasks : outcome[i] = "fail" => tr_result[i].text = <<>>
    /\ \A i \in Tasks : outcome[i] = "ok" => tr_result[i].text # <<>>

----------------------------------------------------------------------------
(* Claims about the logic reconstructor and the Document *)

\* the extract_topics calls made for segment k
CallsFor(k) == { c \in 1..Len(extract_calls) : extract_calls[c].index = k }

\* C12: in extract_topics_for_segments the collaborator's extract_topics is
\* called once for each segment with non-empty text and never for a segment
\* with empty text; a failed call leaves that segment with the empty topic
\* list, the remaining segments are still processed, and the full segment
\* list is returned.
C12_TopicsOncePerTextSegment ==
    rcPc # "idle" =>
        /\ Len(rc_segments) = Len(rc_input)
        /\ \A k \in 1..Len(rc_input) :
              /\ rc_segments[k].id = rc_input[k].id
              /\ rc_input[k].text = <<>> =>
                    /\ CallsFor(k) = {}
                    /\ rc_segments[k].topics = rc_input[k].topics
              /\ (rc_input[k].text # <<>> /\ k < rc_i) => Cardinality(CallsFor(k)) = 1
              /\ k >= rc_i => CallsFor(k) = {}
              /\ \A c \in CallsFor(k) :
                    rc_segments[k].topics = TopicReply(extract_calls[c].outcome)
                    /\ (extract_calls[c].outcome = "raised" => rc_segments[k].topics = <<>>)
        /\ rcPc \in {"returned", "exported"} => rc_i > Len(rc_input)

\* the call for one segment failed, a later segment still got its topics, a
\* segment without text was passed over, and the list was returned
C12_Witness ==
    /\ rcPc = "returned"
    /\ \E c, d \in 1..Len(extract_calls) :
          /\ c < d
          /\ extract_calls[c].outcome = "raised"
          /\ extract_calls[d].outcome = "two"
          /\ rc_segments[extract_calls[d].index].topics = <<"t1", "t2">>
    /\ \E k \in 1..Len(rc_input) : rc_input[k].text = <<>>

\* C13: when analyze_paragraphs fails, reconstruct still returns a Document:
\* the analysis result is the all-empty shape, the Document has no logic
\* chains, no segment is newly flagged as a core argument, and the topic tree
\* is the fallback built from the segments' topics.
C13_AnalysisFailureAbsorbed ==
    (rcPc # "idle" /\ analyze_calls # <<>> /\ analyze_calls[1].outcome = "raised") =>
        /\ rcPc \in {"returned", "exported"}
        /\ analysis_result = EmptyShape
        /\ document.state = "document"
        /\ document.logic_chains = <<>>
        /\ Len(document.segments) = Len(rc_input)
        /\ \A k \in 1..Len(rc_input) :
              document.segments[k].is_core_argument = rc_input[k].is_core_argument
        /\ document.topic_tree = FallbackTree(document.segments)
        /\ document.topic_tree.main_topic = "document"
        /\ { document.topic_tree.subtopics[j].name :
                j \in 1..Len(document.topic_tree.subtopics) }
             = AllTopics(document.segments)

\* the analysis failed for a list whose first segment was not a core
\* argument, and the fallback tree has children
C13_Witness ==
    /\ rcPc = "returned"
    /\ analyze_calls[1].outcome = "raised"
    /\ Len(rc_input) >= 2
    /\ ~rc_input[1].is_core_argument
    /\ \E k \in 1..Len(rc_input) : rc_input[k].is_core_argument
    /\ Len(document.topic_tree.subtopics) >= 2

\* C14: reconstructing an empty segment list yields a Document whose
\* total_duration is 0, whose segment_count is 0 and whose topic tree is the
\* fallback tree, a root with no children.
C14_EmptyListGivesEmptyTree ==
    (rcPc \in {"returned", "exported"} /\ rc_input = <<>>) =>
        /\ RatEq(total_duration(document), Rat(0, 1))
        /\ segment_count(document) = 0
        /\ document.topic_tree = [main_topic |-> "document", subtopics |-> <<>>]

\* C17: the record made by Document.to_dict is consistent: segment_count is
\* the number of entries of its segments list, its logic_chains list has as
\* many entries as the document has chains, and total_duration is the largest
\* end_time among its segment entries (0 when there are none).
C17_DictConsistent ==
    rcPc = "exported" =>
        /\ doc_dict.segment_count = Len(doc_dict.segments)
        /\ doc_dict.segment_count = Len(document.segments)
        /\ Len(doc_dict.logic_chains) = Len(document.logic_chains)
        /\ Len(doc_dict.logic_chains) = document.metadata.logic_chains_count
        /\ IF doc_dict.segments = <<>>
           THEN RatEq(doc_dict.total_duration, Rat(0, 1))
           ELSE /\ \A k \in 1..Len(doc_dict.segments) :
                     RatLeq(doc_dict.segments[k].end_time, doc_dict.total_duration)
                /\ \E k \in 1..Len(doc_dict.segments) :
                     RatEq(doc_dict.segments[k].end_time, doc_dict.total_duration)

\* a document with several segments and two chains was exported
C17_Witness ==
    /\ rcPc = "exported"
    /\ doc_dict.segment_count >= 2
    /\ Len(doc_dict.logic_chains) = 2
    /\ RatEq(doc_dict.total_duration, Rat(10 * Len(rc_input), 1))

----------------------------------------------------------------------------
(* Claims about the split and merge passes *)

\* ceil(duration / max_duration) for positive integers
CeilDiv(a, b) == (a + b - 1) \div b

\* the number of final ranges the claim gives to one merged range
ExpectedPieces(r, max_ms) ==
    IF Dur(r) > max_ms THEN CeilDiv(Dur(r), max_ms) ELSE 1

\* the number of final ranges expected for the first k merged ranges
RECURSIVE ExpectedBefore(_, _, _)
ExpectedBefore(segs, k, max_ms) ==
    IF k = 0 THEN 0
    ELSE ExpectedBefore(segs, k - 1, max_ms) + ExpectedPieces(segs[k], max_ms)

\* C21: split_long_segments divides every range longer than the maximum into
\* exactly ceil(duration / max_duration) sub-ranges, also when the duration
\* is an exact multiple of the maximum, passes every other range through
\* unchanged, and keeps the order of the ranges.
C21_SplitIntoCeilPieces ==
    segPc = "segmented" =>
        /\ Len(final_ranges) =
              ExpectedBefore(merged_ranges, Len(merged_ranges), max_duration_ms)
        /\ \A k \in 1..Len(merged_ranges) :
              LET first == ExpectedBefore(merged_ranges, k - 1, max_duration_ms) + 1
                  last  == ExpectedBefore(merged_ranges, k, max_duration_ms)
              IN /\ last <= Len(final_ranges)
                 /\ final_ranges[first][1] = merged_ranges[k][1]
                 /\ final_ranges[last][2] = merged_ranges[k][2]
                 /\ Dur(merged_ranges[k]) <= max_duration_ms =>
                        final_ranges[first] = merged_ranges[k]

\* range a lies inside range b
Inside(a, b) == b[1] <= a[1] /\ a[2] <= b[2]

\* C29: for an ordered, non-overlapping input, merge_short_segments loses no
\* speech: the output ranges are ordered by start and do not overlap, every
\* input range lies inside exactly one output range, the output starts at the
\* first input start and ends at the last input end, and the output has at
\* most as many ranges as the input (none for an empty input).
C29_MergeLosesNoSpeech ==
    segPc = "segmented" =>
        /\ \A k \in 1..(Len(merged_ranges) - 1) :
              /\ merged_ranges[k][1] < merged_ranges[k + 1][1]
              /\ merged_ranges[k][2] <= merged_ranges[k + 1][1]
        /\ \A i \in 1..Len(nonsilent_ranges) :
              Cardinality({ k \in 1..Len(merged_ranges) :
                              Inside(nonsilent_ranges[i], merged_ranges[k]) }) = 1
        /\ Len(merged_ranges) <= Len(nonsilent_ranges)
        /\ nonsilent_ranges = <<>> => merged_ranges = <<>>
        /\ nonsilent_ranges # <<>> =>
              /\ merged_ranges # <<>>
              /\ merged_ranges[1][1] = nonsilent_ranges[1][1]
              /\ merged_ranges[Len(merged_ranges)][2] =
                    nonsilent_ranges[Len(nonsilent_ranges)][2]

\* three ranges were merged into two: one output range spans a silence
C29_Witness ==
    /\ segPc = "segmented"
    /\ Len(nonsilent_ranges) = 3
    /\ Len(merged_ranges) = 2
    /\ \E k \in 1..2 : \E i \in 1..2 :
          /\ Inside(nonsilent_ranges[i], merged_ranges[k])
          /\ Inside(nonsilent_ranges[i + 1], merged_ranges[k])

----------------------------------------------------------------------------
(* Claims about the relations analyze_relations creates *)

\* the relations segment k received from the call: those after the ones it
\* already carried
NewRelations(k) ==
    SubSeq(segments[k].relations, Len(pipe_input[k].relations) + 1,
           Len(segments[k].relations))

ListIds == { segments[k].id : k \in 1..Len(segments) }

\* C22: after analyze_relations the first segment has received no relation,
\* and every later segment with k detected (marker, type) pairs has received
\* exactly k relations, each from the segment just before it (source_id) to
\* itself (target_id), with confidence 0.8 and the pair's relation type; so
\* both ids of every such relation are ids of the list.
C22_RelationsLinkPredecessor ==
    pipePc = "related" =>
        /\ Len(segments) = Len(pipe_input)
        /\ \A k \in 1..Len(segments) :
              LET found == detect_markers(SEMANTIC_MARKERS, pipe_input[k].text)
                  added == NewRelations(k)
              IN /\ SubSeq(segments[k].relations, 1, Len(pipe_input[k].relations))
                      = pipe_input[k].relations
                 /\ k = 1 => added = <<>>
                 /\ k > 1 =>
                      /\ Len(added) = Len(found)
                      /\ \A j \in 1..Len(added) :
                            /\ added[j].source_id = segments[k - 1].id
                            /\ added[j].target_id = segments[k].id
                            /\ added[j].confidence = 8
                            /\ added[j].relation_type = found[j][2]
                            /\ added[j].marker_words = << found[j][1] >>
                            /\ added[j].source_id \in ListIds
                            /\ added[j].target_id \in ListIds

\* the first segment holds a marker and received nothing, a later segment
\* received two relations of different types
C22_Witness ==
    /\ pipePc = "related"
    /\ Len(segments) >= 2
    /\ detect_markers(SEMANTIC_MARKERS, pipe_input[1].text) # <<>>
    /\ NewRelations(1) = <<>>
    /\ \E k \in 2..Len(segments) :
          /\ Len(NewRelations(k)) = 2
          /\ NewRelations(k)[1].relation_type # NewRelations(k)[2].relation_type

----------------------------------------------------------------------------
(* Claims about the Document's metadata and topic tree *)

\* C23: in the Document returned by reconstruct the metadata counts agree
\* with its content: core_arguments_count is the number of segments flagged
\* as core arguments (get_core_arguments), logic_chains_count the number of
\* logic chains, total_topics the number of distinct topic labels over all
\* segments, whatever the analysis result (repeated or unknown ids included).
C23_MetadataCountsAgree ==
    rcPc \in {"returned", "exported"} =>
        /\ document.metadata.core_arguments_count = Len(get_core_arguments(document))
        /\ document.metadata.logic_chains_count = Len(document.logic_chains)
        /\ document.metadata.total_topics =
              Cardinality(UNION { { document.segments[k].topics[j] :
                                      j \in 1..Len(document.segments[k].topics) } :
                                    k \in 1..Len(document.segments) })

\* the two counts of C23 that do agree with the content
C23_ChainsAndTopicsAgree ==
    rcPc \in {"returned", "exported"} =>
        /\ document.metadata.logic_chains_count = Len(document.logic_chains)
        /\ document.metadata.total_topics =
              Cardinality(UNION { { document.segments[k].topics[j] :
                                      j \in 1..Len(document.segments[k].topics) } :
                                    k \in 1..Len(document.segments) })

\* the (label, segment id) pairs met when scanning the segments in list
\* order and each segment's topics in order
TopicScan(segs) ==
    Flatten([k \in 1..Len(segs) |->
               [j \in 1..Len(segs[k].topics) |->
                  [name |-> segs[k].topics[j], id |-> segs[k].id]]])

\* the position of the first pair with the label
FirstSeen(scan, name) ==
    CHOOSE p \in 1..Len(scan) :
        /\ scan[p].name = name
        /\ \A q \in 1..(p - 1) : scan[q].name # name

\* the ids of the pairs with the label, in scan order
IdsWithLabel(scan, name) ==
    LET HasLabel(e) == e.name = name
    IN Ids(SelectSeq(scan, HasLabel))

----------------------------------------------------------------------------
(* Claims about the order of the steps of reconstruct *)

\* the positions of the log at which a step was taken
StepsNamed(name) == { p \in 1..Len(rc_log) : rc_log[p].step = name }

\* C25: in every run of reconstruct analyze_paragraphs is invoked exactly
\* once, only after every per-segment extract_topics call has returned or
\* failed, with a payload holding every segment of the list in order with the
\* topics just assigned; chain construction, core-argument marking,
\* topic-tree synthesis and document assembly follow that call, in that
\* order.
C25_AnalysisOnceAfterTopics ==
    /\ Len(analyze_calls) <= 1
    /\ Cardinality(StepsNamed("analyze_paragraphs")) = Len(analyze_calls)
    /\ rcPc = "topics" =>
          /\ analyze_calls = <<>>
          /\ document = NoDocument
          /\ \A p \in 1..Len(rc_log) : rc_log[p].step = "extract_topics"
    /\ rcPc \in {"returned", "exported"} =>
          /\ Len(analyze_calls) = 1
          /\ LET payload == analyze_calls[1].payload
                 n == Len(extract_calls)
             IN /\ Len(payload) = Len(rc_input)
                /\ \A k \in 1..Len(rc_input) :
                      /\ payload[k].id = rc_input[k].id
                      /\ payload[k].text = rc_input[k].text
                      /\ payload[k].topics = document.segments[k].topics
                      /\ rc_input[k].text # <<>> =>
                            /\ Cardinality(CallsFor(k)) = 1
                            /\ \A c \in CallsFor(k) :
                                  payload[k].topics = TopicReply(extract_calls[c].outcome)
                /\ Len(rc_log) = n + Len(ReconstructSteps)
                /\ \A p \in 1..n :
                      rc_log[p] = Step("extract_topics", extract_calls[p].index)
                /\ SubSeq(rc_log, n + 1, Len(rc_log)) = ReconstructSteps

\* three segments with text got their topics, one call having failed, before
\* the single analysis call, whose payload carries the topics
C25_Witness ==
    /\ rcPc = "returned"
    /\ Len(extract_calls) = 3
    /\ \E c \in 1..3 : extract_calls[c].outcome = "raised"
    /\ Len(analyze_calls) = 1
    /\ analyze_calls[1].payload[3].topics = <<"t1", "t2">>
    /\ rc_log[4].step = "analyze_paragraphs"
    /\ rc_log[Len(rc_log)].step = "Document"

----------------------------------------------------------------------------
(* Claims about the ids of refined segments *)

\* the segment is the input segment k as split_by_markers leaves it: the
\* same id, times, text, audio file and confidence
KeptFrom(seg, parent) ==
    /\ seg.id = parent.id
    /\ seg.start_time = parent.start_time
    /\ seg.end_time = parent.end_time
    /\ seg.text = parent.text
    /\ seg.audio_path = parent.audio_path
    /\ seg.confidence = parent.confidence

\* the segment is a sub-segment of the parent: the parent's id with a
\* positional suffix, the parent's audio file and confidence
SubSegmentOf(seg, parent) ==
    /\ Len(seg.id) = 3
    /\ seg.id[1] = parent.id
    /\ seg.id[2] = "sub"
    /\ seg.id[3] \in Nat
    /\ seg.audio_path = parent.audio_path
    /\ seg.confidence = parent.confidence

\* C27: for every input list with pairwise distinct ids, refine_segments
\* returns a list with pairwise distinct ids: each returned segment is an
\* input segment kept unchanged or a sub-segment whose id is its parent's id
\* with a positional suffix that differs from its siblings', carrying the
\* parent's audio_path and confidence; a segment whose split yields no
\* non-empty sub-segment is kept.
C27_RefinedIdsDistinct ==
    pipePc \in {"analyzed", "failed"} =>
        /\ pipePc = "analyzed"
        /\ \A i, j \in 1..Len(segments) : i # j => segments[i].id # segments[j].id
        /\ \A j \in 1..Len(segments) :
              \E k \in 1..Len(pipe_input) :
                  \/ KeptFrom(segments[j], pipe_input[k])
                  \/ SubSegmentOf(segments[j], pipe_input[k])
        /\ \A k \in 1..Len(pipe_input) :
              \E j \in 1..Len(segments) : ParentId(segments[j].id) = pipe_input[k].id

\* the part of C27 that the code satisfies: a list that is returned holds
\* exactly the input segments, kept, with their distinct ids
C27_ReturnedListKeepsInput ==
    pipePc = "analyzed" =>
        /\ Len(segments) = Len(pipe_input)
        /\ \A k \in 1..Len(segments) : KeptFrom(segments[k], pipe_input[k])
        /\ \A i, j \in 1..Len(segments) : i # j => segments[i].id # segments[j].id

----------------------------------------------------------------------------
(* Claims about the lexicons of analyzers *)

\* the lexicon analyzer i detects with: what its self.markers refers to
LexiconOf(i) == Deref(analyzers[i].markers, class_markers)

\* texts holding a default keyword, each custom keyword, or none
ProbeTexts ==
    { <<"dan", "shi", "wen">>, <<"qi", "shi">>, <<"tong", "shi">>,
      <<"wen", "gai", "kuo">>, <<"wen">> }

\* the pairs found in the text, as a set
Detected(markers, text) == Range(detect_markers(markers, text))

\* C28: custom markers extend only the lexicon of the analyzer constructed
\* with them: after any sequence of constructions an analyzer constructed
\* without custom markers, and every analyzer constructed earlier, still
\* detects the default keywords (and its own custom ones) and nothing else,
\* and custom keywords for a relation type absent from the lexicon are
\* ignored.
C28_CustomMarkersStayLocal ==
    \A i \in 1..Len(analyzers) : \A text \in ProbeTexts :
        Detected(LexiconOf(i), text) =
            Detected(MergeCustom(SEMANTIC_MARKERS, CustomMarkers(analyzers[i].custom)),
                     text)

\* the part of C28 that the code satisfies: no analyzer gains a relation
\* type, and keywords given for a type the lexicon lacks are detected by none
C28_AbsentTypeIgnored ==
    \A i \in 1..Len(analyzers) :
        /\ analyzers[i].markers = ShallowCopy(SEMANTIC_MARKERS)
        /\ detect_markers(LexiconOf(i), <<"tong", "shi">>) = <<>>

----------------------------------------------------------------------------
(* Claims about the completion of a transcription batch *)

\* the progress reports so far are (1, total), (2, total), ... in this order
ProgressCountsUp ==
    progress = [k \in 1..Len(progress) |-> <<k, Len(tr_input)>>]

\* the batch has returned, the collaborator was called once per segment and
\* progress was reported once per segment
BatchDone ==
    /\ tr_pc = "returned"
    /\ \A i \in Tasks : stt_calls[i] = 1
    /\ Len(progress) = Len(tr_input)
    /\ Len(tr_result) = Len(tr_input)

\* C30: in transcribe_segments with max_concurrent >= 1, if every call of the
\* speech-to-text collaborator eventually returns or fails, then under any
\* interleaving the batch eventually completes, the collaborator has been
\* called exactly once per input segment, and the progress callback has been
\* invoked exactly once per segment, with the values 1, 2, ..., total in
\* strictly increasing order.
C30_BatchCompletes ==
    /\ [](ProgressCountsUp /\ \A i \in Tasks : stt_calls[i] <= 1)
    /\ <>BatchDone

\* a batch of more segments than the limit has returned after a failed call,
\* with tasks completing out of input order
C30_Witness ==
    /\ BatchDone
    /\ Len(tr_input) > max_concurrent
    /\ \E i \in Tasks : outcome[i] = "fail"
    /\ \E k \in 1..(Len(tr_order) - 1) : tr_order[k] > tr_order[k + 1]
    /\ progress[Len(progress)] = <<Len(tr_input), Len(tr_input)>>

----------------------------------------------------------------------------
(* Claims about a pipeline run *)

\* the number of emitted signals with the name
Emitted(name) ==
    Cardinality({ p \in 1..Len(run_emitted) : run_emitted[p].signal = name })

\* the stage number of an entry of the stage log
StageNumber(entry) == CHOOSE k \in 1..Len(StageNames) : StageNames[k] = entry.stage

\* C26: in a pipeline run each stage starts only after the previous stage
\* has completed successfully, in the order segmentation, transcription,
\* semantic analysis, structuring; when a stage fails fatally no later stage
\* starts; and the run ends with exactly one of the signals finished
\* (carrying the Document) and error, never both.
C26_StagesInOrderOneEndSignal ==
    /\ \A p \in 1..Len(run_stages) :
          /\ run_stages[p].event = "started" =>
                /\ \A q \in 1..(p - 1) :
                      /\ run_stages[q].event # "failed"
                      /\ StageNumber(run_stages[q]) < StageNumber(run_stages[p])
                /\ StageNumber(run_stages[p]) > 1 =>
                      run_stages[p - 1] =
                          StageEvent(StageNumber(run_stages[p]) - 1, "completed")
          /\ run_stages[p].event \in {"completed", "failed"} =>
                /\ p > 1
                /\ run_stages[p - 1] = StageEvent(StageNumber(run_stages[p]), "started")
          /\ run_stages[p].event = "failed" => p = Len(run_stages)
    /\ run_pc # "ended" => Emitted("finished") = 0 /\ Emitted("error") = 0
    /\ run_pc = "ended" =>
          /\ Emitted("finished") + Emitted("error") = 1
          /\ run_emitted[Len(run_emitted)].signal \in {"finished", "error"}
          /\ Emitted("finished") = 1 <=>
                /\ run_document # NoDocument
                /\ \A k \in 1..Len(StageNames) :
                      \E p \in 1..Len(run_stages) :
                          run_stages[p] = StageEvent(k, "completed")
          /\ Emitted("finished") = 1 =>
                /\ run_document.state = "document"
                /\ run_document.source_file = run_file
          /\ Emitted("error") = 1 <=>
                run_stages[Len(run_stages)].event = "failed"

\* a run that ended in the analysis with the error signal after two stages
\* had completed
C26_Witness ==
    /\ run_pc = "ended"
    /\ Emitted("error") = 1
    /\ Emitted("finished") = 0
    /\ Len(run_stages) = 6
    /\ run_stages[6] = StageEvent(3, "failed")
    /\ run_document = NoDocument

\* a run over a video file that went through the four stages and ended with
\* the finished signal and a Document of two segments
C26_WitnessFinished ==
    /\ run_pc = "ended"
    /\ Emitted("finished") = 1
    /\ FileKind(Lower(run_file)) = "video"
    /\ Len(run_document.segments) = 2

====
